---- MODULE Spec2Model ----
(***************************************************************************)
(* Model of the mtg-image-db ingestion-to-index pipeline:                  *)
(*   - build_embeddings.py : cache classification, the decode/embed        *)
(*     scheduler, the accumulator (vecs/good) and index assembly;          *)
(*   - build_mtg_faiss.py  : load_image_rgb, Embedder.encode_images and    *)
(*     the sequential embed loop of build_index.                           *)
(***************************************************************************)
EXTENDS Integers, Sequences, FiniteSets, TLC

\* ------------------------------------------------------------------ bounds
NumRecords == 3
MaxBatch == 2
MaxCpu == 2
NumDl == 2
PayloadChunks == 2
MaxFaults == 1
MaxRetries == 2
MaxKept == 1
MaxGiven == 2

\* ---------------------------------------------------------------- helpers
None == [tag |-> "None"]
Zero == [emb |-> -1, unit |-> FALSE]

Max(a, b) == IF a >= b THEN a ELSE b
Min(a, b) == IF a <= b THEN a ELSE b

Rec == 0 .. (NumRecords - 1)

\* The records of a download run, the distinct image URLs they may carry, and the
\* files the cache directory may hold.
DRec == 0 .. (NumDl - 1)
Urls == 1 .. NumDl
Inodes == 1 .. (4 * NumDl)

NoOutcome == [kind |-> "-", error |-> "-"]

\* What the cache directory holds for a record's image_url.
\* "missing": no file; "empty": a zero-byte file; "invalid": a file validate_image
\* rejects; "undecodable": one it accepts and load_image_rgb cannot load (an
\* UnidentifiedImageError or OSError at load time); "raising": one it accepts and
\* whose loading raises anything else (a MemoryError while padding or resizing, a
\* SyntaxError or ValueError of the decoder); "image".
CacheKinds == {"missing", "empty", "invalid", "undecodable", "raising", "image"}

VARIABLES
  cache,        \* cache[i]: what lies at cache_dir / safe_filename(records[i].image_url)
  batch_size,   \* --batch
  cpu_count,    \* multiprocessing.cpu_count()
  pc,           \* position of the main thread in build_embeddings_from_cache
  paths,        \* paths[i]: None or the cache file of record i
  path_iter,    \* next position iter(enumerate(paths)) will yield
  pending,      \* futures submitted and not yet consumed (a future is named by its submit index)
  task,         \* task[f]: "none" | "queued" | "running" | "done" | "consumed"
  result,       \* result[f]: value of fut.result() once done: <<idx, img>>
  done,         \* the set wait() returned, not yet iterated
  batch_idx, batch_imgs,
  vecs, good,   \* the accumulator
  pbar,         \* tqdm progress counter
  embed_batches,
  kept, X, meta, index,   \* compaction and index assembly
  submitted, consumed, writes, writers,  \* history: per-record counts, threads that wrote a slot
  order,        \* history: the record indexes in the order their results were consumed
  calls,        \* history: the batch_idx of every embedder.encode_images call, and where it was made
  validate_cache,            \* the flag cleared by --no-validate-cache
  missing, validation_failed, \* the counters of lines 124-151
  missing_images,            \* the list of line 125
  validation_failures_list,  \* the list of line 127 (validation_failures)
  out_dir,      \* the files written to out_dir so far, each with its number of rows
  manifest      \* the statistics of build_manifest.json once written

\* download_images.py and helpers/atomic_io.py
VARIABLES
  url,          \* url[i]: records[i]["image_url"]
  target,       \* target[u]: inode at cache_dir / safe_filename(u), 0 when the name is absent
  part,         \* part[u]: inode at the ".part" sibling of that path, 0 when absent
  inode,        \* inode[n]: the chunks a file holds (0 is a hole)
  mode,         \* "stream" (atomic_write_stream) or "bytes" (atomic_write)
  dpc,          \* dpc[i]: position of the task handling record i
  fd,           \* fd[i]: inode of the file object the task has open, 0 when none
  off,          \* off[i]: chunks the task has written to fd[i]
  ret,          \* ret[i]: how the atomic write ended: "True", "False", "raised", "-" before
  outcome,      \* outcome[i]: what future.result() gives for record i
  how,          \* history: how record i was really handled: cached, downloaded or failed
  collected,    \* collected[i]: times the orchestrator consumed record i's future
  succeeded, failed, failed_downloads,
  opc,          \* position of download_all_images: "collect", "summary", "aborted"
  requests,     \* requests[u]: session.get calls for u in the current run
  faults,       \* environment failures injected so far
  killed,       \* the process was killed
  run,          \* 1 for the first run, 2 for the run repeated on the same cache directory
  snap          \* snap[u]: <<exists, content>> of the target when the run (or the write) began

schedvars == << cache, batch_size, cpu_count, pc, paths, path_iter, pending, task, result, done,
                batch_idx, batch_imgs, vecs, good, pbar, embed_batches, kept, X, meta, index,
                submitted, consumed, writes, writers, order, calls,
                validate_cache, missing, validation_failed, missing_images,
                validation_failures_list, out_dir, manifest >>

buildvars == << validate_cache, missing, validation_failed, missing_images,
                validation_failures_list, out_dir, manifest >>

dlvars == << url, target, part, inode, mode, dpc, fd, off, ret, outcome, how, collected,
             succeeded, failed, failed_downloads, opc, requests, faults, killed, run, snap >>

\* helpers/session.py: one fetch through DownloadSession
VARIABLES
  max_retries,  \* DownloadSession(max_retries=...)
  server,       \* what the URL's server answers to a request
  heal,         \* the request from which the server answers 200 instead (0: never)
  fpc,          \* position of the fetch: "none", "request", "backoff", "got", "returned"
  attempts,     \* HTTP requests sent for this fetch
  retries_left, \* Retry.total still available
  fresult,      \* what download_single_image returned
  retry_after,  \* seconds of the Retry-After header of a retryable answer, 0: no header
  slept,        \* seconds slept before the retry now pending
  body          \* body[u]: the number of chunks the server sends as the body of u

fetchvars == << max_retries, server, heal, fpc, attempts, retries_left, fresult,
               retry_after, slept, body >>

\* helpers/validation.py: one call of validate_image
VARIABLES
  vfile,        \* the file at path: exists, size, and what each decoding pass does with it
  vpc,          \* position in validate_image: "none", "start", "verify", "load", "returned"
  vopens,       \* Image.open calls made
  vresult       \* the returned pair, or the exception that escaped

valvars == << vfile, vpc, vopens, vresult >>

\* helpers/cli_validation.py: one start of an entry point
VARIABLES
  entry,        \* the script started: its parser decides which attributes args has
  args,         \* the argparse.Namespace handed to validate_args
  apc,          \* position of main(): "none", "parsed", "validated", "working", "exit"
  stderr,       \* the error lines validate_args printed
  exit_code,    \* the status of sys.exit, -1 while the process has not exited
  faces         \* the records list after `if limit: records = records[:limit]`

argvars == << entry, args, apc, stderr, exit_code, faces >>

\* test_perfect_match.py: a query of the index that was built
VARIABLES
  pixels,       \* pixels[i]: the picture record i's cache file holds
  top1          \* the record queried, the identifier index.search returned, the score

queryvars == << pixels, top1 >>

\* build_embeddings.py, lines 134-141: the pool of the parallel cache check
VARIABLES
  check_started, \* number of records handed to a validation worker, in imap's order
  check_result, \* check_result[i]: the (cache_file, status) the worker of record i returned
  check_order   \* the records in the order their workers finished

checkvars == << check_started, check_result, check_order >>

\* the output directory, across runs and crashes
VARIABLES
  disk,         \* disk[f]: whether file f is there, and the record each of its entries refers to
  export_pc,    \* position of export_for_browser's main
  format,       \* --format
  loaded_X,     \* the rows np.load returned
  loaded_meta   \* the lines of the metadata file, parsed

exportvars == << export_pc, format, loaded_X, loaded_meta >>
outvars == << disk, exportvars >>

helpervars == << fetchvars, valvars, argvars, queryvars, checkvars, outvars >>

vars == << schedvars, dlvars, fetchvars, valvars, argvars, queryvars, checkvars, outvars >>

\* ------------------------------------------------- build_mtg_faiss.py
\* The decoded image of record i's cache file.
Image(i) == [tag |-> "img", px |-> pixels[i]]

\* The embedding model: image -> unit vector; a black box that depends on the image alone.
Embed(img) == [emb |-> img.px, unit |-> TRUE]

\* cache_dir / safe_filename(records[i]["image_url"])
cache_file(i) == [tag |-> "path", of |-> i]

\* An exception that leaves the function (and, in a pool task, is kept by the future).
Raises == [tag |-> "raise"]

\* Lines 123-149: the image, or None under except (UnidentifiedImageError, OSError).
load_image_rgb(path) ==
  IF cache[path.of] = "image" THEN Image(path.of)
  ELSE IF cache[path.of] = "raising" THEN Raises
  ELSE None

\* Lines 166-182 without the reinsertion of lines 184-190: the rows of the images
\* that are not None, closed up.
encode_images_compact(imgs) ==
  LET batch == SelectSeq(imgs, LAMBDA im : im # None)
  IN [j \in 1 .. Len(batch) |-> Embed(batch[j])]

\* Lines 166-191: the images that are not None are embedded together (arr), and
\* row i of the result is arr[j], j counting the images that are not None up to
\* i, or zeros for a None; no image at all gives an array of no rows.
encode_images(imgs) ==
  LET batch == SelectSeq(imgs, LAMBDA im : im # None)
      arr == [j \in 1 .. Len(batch) |-> Embed(batch[j])]
  IN IF batch = << >>
       THEN << >>
       ELSE [i \in 1 .. Len(imgs) |->
               IF imgs[i] = None THEN Zero
               ELSE arr[Cardinality({m \in 1 .. i : imgs[m] # None})]]

\* ------------------------------------------------- build_embeddings.py
\* Line 38: cache_file.exists() and cache_file.stat().st_size.
exists(i) == cache[i] # "missing"
st_size(i) == IF cache[i] \in {"missing", "empty"} THEN 0 ELSE 1

validate_cache_worker_by_name(i) ==
  IF ~exists(i) THEN "missing"
  ELSE IF cache[i] = "invalid" THEN "invalid"
  ELSE "valid"

validate_cache_worker(i) ==
  IF ~exists(i) \/ st_size(i) = 0 THEN "missing"
  ELSE IF cache[i] = "invalid" THEN "invalid"
  ELSE "valid"

\* Lines 57-62: what a decode task of the pool calls.
worker_calls_embedder == {"load_image_rgb", "encode_images"}

worker_calls == {"load_image_rgb"}

load_image_worker_shifted(idx, path) ==
  IF path = None THEN << idx, None >> ELSE << (idx + 1) % NumRecords, load_image_rgb(path) >>

load_image_worker(idx, path) ==
  IF path = None THEN << idx, None >> ELSE << idx, load_image_rgb(path) >>

load_workers == Max(1, Min(4, cpu_count))

valid_count == Cardinality({i \in Rec : paths[i] # None})

prefetch_batches == 2

\* Line 189: the window of submitted, unconsumed decode tasks.
prefetch_limit_all == NumRecords

prefetch_limit == Max(load_workers, Min(valid_count, batch_size * prefetch_batches))

\* Lines 181-196: the accumulator and the scheduler's locals before the first refill.
SchedStart ==
  /\ paths = [i \in Rec |-> None]
  /\ path_iter = 0
  /\ pending = {}
  /\ task = [i \in Rec |-> "none"]
  /\ result = [i \in Rec |-> None]
  /\ done = {}
  /\ batch_idx = << >>
  /\ batch_imgs = << >>
  /\ vecs = [i \in Rec |-> Zero]
  /\ good = [i \in Rec |-> FALSE]
  /\ pbar = 0
  /\ embed_batches = 0
  /\ kept = << >>
  /\ X = << >>
  /\ meta = << >>
  /\ index = << >>
  /\ submitted = [i \in Rec |-> 0]
  /\ consumed = [i \in Rec |-> 0]
  /\ writes = [i \in Rec |-> 0]
  /\ writers = [i \in Rec |-> {}]
  /\ order = << >>
  /\ calls = << >>
  /\ missing = 0
  /\ validation_failed = 0
  /\ missing_images = << >>
  /\ validation_failures_list = << >>
  /\ out_dir = << >>
  /\ manifest = None

\* The download step is not running (the build step's runs).
DlIdle ==
  /\ url = [i \in DRec |-> 1]
  /\ target = [u \in Urls |-> 0]
  /\ part = [u \in Urls |-> 0]
  /\ inode = [n \in Inodes |-> << >>]
  /\ mode = "stream"
  /\ dpc = [i \in DRec |-> "none"]
  /\ fd = [i \in DRec |-> 0]
  /\ off = [i \in DRec |-> 0]
  /\ ret = [i \in DRec |-> "-"]
  /\ outcome = [i \in DRec |-> NoOutcome]
  /\ how = [i \in DRec |-> "-"]
  /\ collected = [i \in DRec |-> 0]
  /\ succeeded = 0
  /\ failed = 0
  /\ failed_downloads = << >>
  /\ opc = "none"
  /\ requests = [u \in Urls |-> 0]
  /\ faults = 0
  /\ killed = FALSE
  /\ run = 1
  /\ snap = [u \in Urls |-> << FALSE, << >> >>]

\* validate_image is not being followed.
ValIdle ==
  /\ vfile = [exists |-> FALSE, size |-> 0, verify |-> "ok", load |-> "ok"]
  /\ vpc = "none"
  /\ vopens = 0
  /\ vresult = [valid |-> FALSE, reason |-> "-"]

\* No fetch is being followed.
FetchQuiet ==
  /\ max_retries = 0
  /\ server = [kind |-> "status", code |-> 200]
  /\ heal = 0
  /\ fpc = "none"
  /\ attempts = 0
  /\ retries_left = 0
  /\ fresult = NoOutcome
  /\ retry_after = 0
  /\ slept = 0

\* Every URL is answered with the whole picture.
FullBody == [u \in Urls |-> PayloadChunks]

FetchIdle ==
  /\ FetchQuiet
  /\ body = FullBody

\* An attribute of the namespace: not defined by the parser, None, or an int.
NoAttr == [k |-> "absent", v |-> 0]
PyNone == [k |-> "None", v |-> 0]
PyInt(n) == [k |-> "int", v |-> n]

Fields == {"limit", "batch", "size", "workers", "hnsw_m", "hnsw_ef_construction",
           "checkpoint_frequency", "timeout_connect", "timeout_read", "max_retries"}

\* No entry point is being followed.
ArgsIdle ==
  /\ entry = "none"
  /\ args = [f \in Fields |-> NoAttr]
  /\ apc = "none"
  /\ stderr = {}
  /\ exit_code = -1
  /\ faces = << >>

NoHit == [rec |-> -1, id |-> -1, score |-> 0]

\* No query is being followed; the cache files hold pictures that all differ.
QueryIdle ==
  /\ pixels = [i \in Rec |-> i]
  /\ top1 = NoHit

\* No helper is being followed.
NoResult == [file |-> None, status |-> "-"]

CheckIdle ==
  /\ check_started = 0
  /\ check_result = [i \in Rec |-> NoResult]
  /\ check_order = << >>

\* build_embeddings.py, lines 261, 272, 276 and 312; export_for_browser.py,
\* lines 66 and 97.
OutputFiles == {"mtg_embeddings.npy", "mtg_cards.faiss", "mtg_meta.jsonl",
                "build_manifest.json", "embeddings.f32bin", "embeddings.i8bin", "meta.json"}

Absent == [there |-> FALSE, rows |-> << >>]
File(rows) == [there |-> TRUE, rows |-> rows]

ExportIdle ==
  /\ export_pc = "none"
  /\ format = "float32"
  /\ loaded_X = << >>
  /\ loaded_meta = << >>

OutIdle ==
  /\ disk = [f \in OutputFiles |-> Absent]
  /\ ExportIdle

HelpersIdle ==
  /\ FetchIdle
  /\ ValIdle
  /\ ArgsIdle
  /\ QueryIdle
  /\ CheckIdle
  /\ OutIdle

Init ==
  /\ cache \in [Rec -> CacheKinds]
  /\ validate_cache \in BOOLEAN
  /\ HelpersIdle
  /\ pc = "validate"
  /\ batch_size \in 1 .. MaxBatch
  /\ cpu_count \in 1 .. MaxCpu
  /\ SchedStart
  /\ DlIdle

\* Lines 143-153: the error_info of every record with the given status, appended
\* in record order (pool.imap keeps the order of its input).
error_infos(status) ==
  LET S == {i \in Rec : validate_cache_worker(i) = status}
  IN [k \in 1 .. Cardinality(S) |->
        [rec |-> CHOOSE i \in S : Cardinality({j \in S : j < i}) = k - 1]]

\* Lines 134-175: classify every record, build paths, abort when nothing is valid.
ValidateCache ==
  /\ pc = "validate"
  /\ paths' = [i \in Rec |-> IF validate_cache_worker(i) = "valid" THEN cache_file(i) ELSE None]
  /\ pc' = IF \A i \in Rec : validate_cache_worker(i) # "valid" THEN "aborted" ELSE "refill"
  /\ missing' = Cardinality({i \in Rec : validate_cache_worker(i) = "missing"})
  /\ validation_failed' = Cardinality({i \in Rec : validate_cache_worker(i) = "invalid"})
  /\ missing_images' = error_infos("missing")
  /\ validation_failures_list' = error_infos("invalid")
  /\ UNCHANGED << cache, batch_size, cpu_count, path_iter, pending, task, result, done,
                  batch_idx, batch_imgs, vecs, good, pbar, embed_batches, kept, X, meta,
                  index, submitted, consumed, writes, writers, order >>
  /\ UNCHANGED << calls, validate_cache, out_dir, manifest, dlvars, helpervars >>

\* refill_pending with `<=` in the test of line 200.
RECURSIVE refill_pending_inclusive(_, _, _)
refill_pending_inclusive(it, pend, skipped) ==
  IF Cardinality(pend) > prefetch_limit \/ it >= NumRecords
    THEN [it |-> it, pend |-> pend, skipped |-> skipped]
    ELSE IF paths[it] = None
      THEN refill_pending_inclusive(it + 1, pend, skipped + 1)
      ELSE refill_pending_inclusive(it + 1, pend \cup {it}, skipped)

\* Lines 199-209, refill_pending(): admit decode tasks while the window has room.
RECURSIVE refill_pending(_, _, _)
refill_pending(it, pend, skipped) ==
  IF Cardinality(pend) >= prefetch_limit \/ it >= NumRecords
    THEN [it |-> it, pend |-> pend, skipped |-> skipped]
    ELSE IF paths[it] = None
      THEN refill_pending(it + 1, pend, skipped + 1)
      ELSE refill_pending(it + 1, pend \cup {it}, skipped)

\* Lines 211 and 236 followed by the loop test of line 213 (and, when the loop
\* is over, by the executor's shutdown at the end of the with block).
RefillPending ==
  /\ pc = "refill"
  /\ LET r == refill_pending(path_iter, pending, 0)
         new == r.pend \ pending
     IN /\ path_iter' = r.it
        /\ pending' = r.pend
        /\ task' = [f \in Rec |-> IF f \in new THEN "queued" ELSE task[f]]
        /\ submitted' = [f \in Rec |-> IF f \in new THEN submitted[f] + 1 ELSE submitted[f]]
        /\ pbar' = pbar + r.skipped
        /\ pc' = IF r.pend = {} THEN "flush" ELSE "wait"
  /\ UNCHANGED << cache, batch_size, cpu_count, paths, result, done, batch_idx, batch_imgs,
                  vecs, good, embed_batches, kept, X, meta, index, consumed, writes, writers,
                  order >>
  /\ UNCHANGED << calls, buildvars, dlvars, helpervars >>

\* A pool thread takes the oldest queued task (the executor's work queue is FIFO).
WorkerStart(f) ==
  /\ task[f] = "queued"
  /\ \A g \in Rec : task[g] = "queued" => f <= g
  /\ Cardinality({g \in Rec : task[g] = "running"}) < load_workers
  /\ task' = [task EXCEPT ![f] = "running"]
  /\ UNCHANGED << cache, batch_size, cpu_count, pc, paths, path_iter, pending, result, done,
                  batch_idx, batch_imgs, vecs, good, pbar, embed_batches, kept, X, meta,
                  index, submitted, consumed, writes, writers, order >>
  /\ UNCHANGED << calls, buildvars, dlvars, helpervars >>

\* Lines 57-62: the task returns (idx, image or None); the future becomes done.
WorkerFinish(f) ==
  /\ task[f] = "running"
  /\ task' = [task EXCEPT ![f] = "done"]
  /\ result' = [result EXCEPT ![f] = load_image_worker(f, paths[f])]
  /\ UNCHANGED << cache, batch_size, cpu_count, pc, paths, path_iter, pending, done,
                  batch_idx, batch_imgs, vecs, good, pbar, embed_batches, kept, X, meta,
                  index, submitted, consumed, writes, writers, order >>
  /\ UNCHANGED << calls, buildvars, dlvars, helpervars >>

\* Line 214: wait(..., FIRST_COMPLETED) returns the pending futures that are done.
Wait ==
  /\ pc = "wait"
  /\ \E f \in pending : task[f] = "done"
  /\ done' = {f \in pending : task[f] = "done"}
  /\ pc' = "process"
  /\ UNCHANGED << cache, batch_size, cpu_count, paths, path_iter, pending, task, result,
                  batch_idx, batch_imgs, vecs, good, pbar, embed_batches, kept, X, meta,
                  index, submitted, consumed, writes, writers, order >>
  /\ UNCHANGED << calls, buildvars, dlvars, helpervars >>

\* Where the main thread goes after one iteration of "for fut in done".
AfterItemLeave(d) == IF d = {} THEN "flush" ELSE "process"

AfterItem(d) == IF d = {} THEN "refill" ELSE "process"

\* Lines 218-220: only a decoded image joins the batch.
batch_append_all(b, x, img) == Append(b, x)

batch_append(b, x, img) == IF img # None THEN Append(b, x) ELSE b

\* Line 222: the batch is embedded when it holds batch_size images.
batch_full_late(bidx) == Len(bidx) > batch_size

batch_full(bidx) == Len(bidx) = batch_size

\* Lines 215-223: one iteration of "for fut in done" (a set: any order), up to the
\* batch-size test.
ProcessDone(f) ==
  /\ pc = "process"
  /\ f \in done
  /\ result[f][2] # Raises
  /\ LET idx == result[f][1]
         img == result[f][2]
         bidx == batch_append(batch_idx, idx, img)
     IN /\ pending' = pending \ {f}
        /\ done' = done \ {f}
        /\ task' = [task EXCEPT ![f] = "consumed"]
        /\ consumed' = [consumed EXCEPT ![idx] = @ + 1]
        /\ batch_idx' = bidx
        /\ batch_imgs' = batch_append(batch_imgs, img, img)
        /\ pbar' = pbar + 1
        /\ pc' = IF batch_full(bidx) THEN "embed" ELSE AfterItem(done \ {f})
  /\ UNCHANGED << cache, batch_size, cpu_count, paths, path_iter, result, vecs, good,
                  embed_batches, kept, X, meta, index, submitted, writes, writers >>
  /\ order' = Append(order, result[f][1])
  /\ UNCHANGED << calls, buildvars, dlvars, helpervars >>

\* Line 216: fut.result() re-raises what the decode task raised; nothing catches
\* it and build_embeddings_from_cache ends with that exception.
ProcessRaise(f) ==
  /\ pc = "process"
  /\ f \in done
  /\ result[f][2] = Raises
  /\ pc' = "crashed"
  /\ UNCHANGED << cache, batch_size, cpu_count, paths, path_iter, pending, task, result,
                  done, batch_idx, batch_imgs, vecs, good, pbar, embed_batches, kept, X,
                  meta, index, submitted, consumed, writes, writers, order >>
  /\ UNCHANGED << calls, buildvars, dlvars, helpervars >>

\* Lines 225-228 and 240-243: the rows of Z a batch position writes to slot i.
RowsByPosition(Z, bidx, i) == {k \in 1 .. Len(bidx) : k - 1 = i /\ k <= Len(Z)}

Rows(Z, bidx, i) == {k \in 1 .. Len(bidx) : bidx[k] = i /\ k <= Len(Z)}

Scatter(v, Z, bidx) ==
  [i \in Rec |-> IF Rows(Z, bidx, i) = {} THEN v[i]
                 ELSE Z[CHOOSE k \in Rows(Z, bidx, i) : \A j \in Rows(Z, bidx, i) : j <= k]]

Flag(g, Z, bidx) == [i \in Rec |-> g[i] \/ Rows(Z, bidx, i) # {}]

\* Lines 224-234: the embed call of a full batch returns and its rows are written.
EmbedReturn ==
  /\ pc = "embed"
  /\ LET Z == encode_images(batch_imgs)
     IN /\ vecs' = Scatter(vecs, Z, batch_idx)
        /\ good' = Flag(good, Z, batch_idx)
        /\ writes' = [i \in Rec |-> writes[i] + Cardinality(Rows(Z, batch_idx, i))]
        /\ writers' = [i \in Rec |-> IF Rows(Z, batch_idx, i) = {} THEN writers[i]
                                     ELSE writers[i] \cup {"main"}]
  /\ batch_imgs' = << >>
  /\ batch_idx' = << >>
  /\ embed_batches' = embed_batches + 1
  /\ pc' = AfterItem(done)
  /\ calls' = Append(calls, [idx |-> batch_idx, line |-> 224])
  /\ UNCHANGED << cache, batch_size, cpu_count, paths, path_iter, pending, task, result,
                  done, pbar, kept, X, meta, index, submitted, consumed, order >>
  /\ UNCHANGED << buildvars, dlvars, helpervars >>

\* Lines 238-243: the trailing partial batch.
FlushSkipped ==
  /\ pc = "flush"
  /\ pc' = "compact"
  /\ UNCHANGED << cache, batch_size, cpu_count, paths, path_iter, pending, task, result,
                  done, batch_idx, batch_imgs, vecs, good, pbar, embed_batches, kept, X, meta,
                  index, submitted, consumed, writes, writers, order, calls >>
  /\ UNCHANGED << buildvars, dlvars, helpervars >>

Flush ==
  /\ pc = "flush"
  /\ IF batch_imgs # << >>
       THEN LET Z == encode_images(batch_imgs)
            IN /\ vecs' = Scatter(vecs, Z, batch_idx)
               /\ good' = Flag(good, Z, batch_idx)
               /\ writes' = [i \in Rec |-> writes[i] + Cardinality(Rows(Z, batch_idx, i))]
               /\ writers' = [i \in Rec |-> IF Rows(Z, batch_idx, i) = {} THEN writers[i]
                                            ELSE writers[i] \cup {"main"}]
               /\ calls' = Append(calls, [idx |-> batch_idx, line |-> 239])
       ELSE UNCHANGED << vecs, good, writes, writers, calls >>
  /\ pc' = "compact"
  /\ UNCHANGED << cache, batch_size, cpu_count, paths, path_iter, pending, task, result,
                  done, batch_idx, batch_imgs, pbar, embed_batches, kept, X, meta, index,
                  submitted, consumed, order >>
  /\ UNCHANGED << buildvars, dlvars, helpervars >>

\* np.where(good)[0]: the flagged positions, ascending.
WhereByCompletion(g) == SelectSeq(order, LAMBDA i : g[i])

Where(g) ==
  LET S == {i \in Rec : g[i]}
  IN [k \in 1 .. Cardinality(S) |-> CHOOSE i \in S : Cardinality({j \in S : j < i}) = k - 1]

NaN == [emb |-> -2, unit |-> FALSE]

\* Lines 251-256: rows are divided by their norms unless all norms are 1.
Normalize(x) ==
  IF \A k \in 1 .. Len(x) : x[k].unit THEN x
  ELSE [k \in 1 .. Len(x) |-> IF x[k] = Zero THEN NaN ELSE [x[k] EXCEPT !.unit = TRUE]]

\* The source record a metadata line is written from.
records(i) == [face_id |-> i]

\* Line 247: meta = [records[i] for i in kept].
MetaRowsUncompacted(k) == [r \in 1 .. Len(k) |-> records(r - 1)]

MetaRows(k) == [r \in 1 .. Len(k) |-> records(k[r])]

\* Line 271: index.add_with_ids(X, np.arange(X.shape[0])).
add_with_ids(x) == [id \in 0 .. (Len(x) - 1) |-> x[id + 1]]

\* Line 303: round(X.shape[0] / len(records) * 100, 2), in hundredths of a percent.
success_rate_percent(m, n) == IF n > 0 THEN (20000 * m + n) \div (2 * n) ELSE 0

\* Line 300: validation_failed if validate_cache else 0.
validation_failures(flag, n) == IF flag THEN n ELSE 0

\* Lines 284-304: the statistics of the manifest.
Statistics(m) ==
  [total_records |-> NumRecords,
   missing_from_cache |-> missing,
   validation_failures |-> validation_failures(validate_cache, validation_failed),
   successfully_embedded |-> m,
   failed_or_missing |-> NumRecords - m,
   success_rate_percent |-> success_rate_percent(m, NumRecords)]

\* Lines 261, 272, 276-279 and 312-314: the files written, in this order.
Outputs(m) ==
  << [file |-> "mtg_embeddings.npy", rows |-> m],
     [file |-> "mtg_cards.faiss", rows |-> m],
     [file |-> "mtg_meta.jsonl", rows |-> m],
     [file |-> "build_manifest.json", rows |-> 1] >>

\* Lines 245-315: compaction, identifiers 0..M-1, the metadata rows, and the four
\* files written to out_dir.
Compact ==
  /\ pc = "compact"
  /\ LET k == Where(good)
         x == Normalize([r \in 1 .. Len(k) |-> vecs[k[r]]])
     IN /\ kept' = k
        /\ X' = x
        /\ meta' = MetaRows(k)
        /\ index' = add_with_ids(x)
        /\ out_dir' = Outputs(Len(x))
        /\ manifest' = Statistics(Len(x))
  /\ pc' = "done"
  /\ UNCHANGED << cache, batch_size, cpu_count, paths, path_iter, pending, task, result,
                  done, batch_idx, batch_imgs, vecs, good, pbar, embed_batches,
                  submitted, consumed, writes, writers, order >>
  /\ UNCHANGED << calls, validate_cache, missing, validation_failed, missing_images,
                  validation_failures_list, dlvars, helpervars >>

\* ------------------------------------------------- build_mtg_faiss.py, build_index
\* Lines 294-297 and 303-306: rows of Z written by the sequential loop (it batches
\* null images too and skips them when writing).
SeqRows(Z, bidx, bimgs, i) ==
  {k \in 1 .. Len(bidx) : bidx[k] = i /\ bimgs[k] # None /\ Len(Z) >= k}

SeqWrite(acc, bidx, bimgs) ==
  LET Z == encode_images(bimgs)
  IN [vecs |-> [i \in Rec |-> IF SeqRows(Z, bidx, bimgs, i) = {} THEN acc.vecs[i]
                              ELSE Z[CHOOSE k \in SeqRows(Z, bidx, bimgs, i) :
                                       \A j \in SeqRows(Z, bidx, bimgs, i) : j <= k]],
      good |-> [i \in Rec |-> acc.good[i] \/ SeqRows(Z, bidx, bimgs, i) # {}]]

\* Lines 285-306: load then embed, strictly in record order.
RECURSIVE SeqLoop(_, _, _, _)
SeqLoop(i, bimgs, bidx, acc) ==
  IF i = NumRecords
    THEN IF bimgs # << >> THEN SeqWrite(acc, bidx, bimgs) ELSE acc
    ELSE IF paths[i] = None
      THEN SeqLoop(i + 1, bimgs, bidx, acc)
      ELSE LET imgs == Append(bimgs, load_image_rgb(paths[i]))
               idxs == Append(bidx, i)
           IN IF Len(imgs) = batch_size
                THEN SeqLoop(i + 1, << >>, << >>, SeqWrite(acc, idxs, imgs))
                ELSE SeqLoop(i + 1, imgs, idxs, acc)

Sequential ==
  SeqLoop(0, << >>, << >>, [vecs |-> [i \in Rec |-> Zero], good |-> [i \in Rec |-> FALSE]])

\* Line 285 is reached: download_image has returned a path for the records whose
\* file is there and not empty, lines 253-263 have replaced it by None where
\* validation is on and rejects the file, and some path is not None (line 276).
InitSeq ==
  /\ cache \in [Rec -> CacheKinds]
  /\ validate_cache \in BOOLEAN
  /\ batch_size \in 1 .. MaxBatch
  /\ cpu_count = 1
  /\ SchedStart
  /\ \E i \in Rec : st_size(i) > 0 /\ (validate_cache => cache[i] # "invalid")
  /\ DlIdle
  /\ HelpersIdle
  /\ pc = "seq_paths"

\* Lines 244-265, the outcome of the loop.
SeqPaths ==
  /\ pc = "seq_paths"
  /\ paths' = [i \in Rec |-> IF st_size(i) > 0 /\ (validate_cache => cache[i] # "invalid")
                               THEN cache_file(i) ELSE None]
  /\ pc' = "seq_loop"
  /\ UNCHANGED << cache, batch_size, cpu_count, path_iter, pending, task, result, done,
                  batch_idx, batch_imgs, vecs, good, pbar, embed_batches, kept, X, meta,
                  index, submitted, consumed, writes, writers, order >>
  /\ UNCHANGED << calls, buildvars, dlvars, helpervars >>

\* Lines 286-298: one iteration of the loop over paths. load_image_rgb is called
\* outside any try, so what it raises ends build_index.
SeqStep ==
  /\ pc = "seq_loop"
  /\ path_iter < NumRecords
  /\ path_iter' = path_iter + 1
  /\ IF paths[path_iter] = None
       THEN /\ pc' = "seq_loop"
            /\ UNCHANGED << batch_idx, batch_imgs, vecs, good, embed_batches, calls >>
       ELSE IF load_image_rgb(paths[path_iter]) = Raises
         THEN /\ pc' = "crashed"
              /\ UNCHANGED << batch_idx, batch_imgs, vecs, good, embed_batches, calls >>
         ELSE LET imgs == Append(batch_imgs, load_image_rgb(paths[path_iter]))
                  idxs == Append(batch_idx, path_iter)
              IN /\ pc' = "seq_loop"
                 /\ IF Len(imgs) = batch_size
                      THEN /\ vecs' = SeqWrite([vecs |-> vecs, good |-> good], idxs, imgs).vecs
                           /\ good' = SeqWrite([vecs |-> vecs, good |-> good], idxs, imgs).good
                           /\ batch_imgs' = << >>
                           /\ batch_idx' = << >>
                           /\ embed_batches' = embed_batches + 1
                           /\ calls' = Append(calls, [idx |-> idxs, line |-> 293])
                      ELSE /\ batch_imgs' = imgs
                           /\ batch_idx' = idxs
                           /\ UNCHANGED << vecs, good, embed_batches, calls >>
  /\ UNCHANGED << cache, batch_size, cpu_count, paths, pending, task, result, done, pbar,
                  kept, X, meta, index, submitted, consumed, writes, writers, order >>
  /\ UNCHANGED << buildvars, dlvars, helpervars >>

\* Lines 300-306: the flush after the loop.
SeqFlush ==
  /\ pc = "seq_loop"
  /\ path_iter = NumRecords
  /\ IF batch_imgs # << >>
       THEN /\ vecs' = SeqWrite([vecs |-> vecs, good |-> good], batch_idx, batch_imgs).vecs
            /\ good' = SeqWrite([vecs |-> vecs, good |-> good], batch_idx, batch_imgs).good
            /\ calls' = Append(calls, [idx |-> batch_idx, line |-> 302])
       ELSE UNCHANGED << vecs, good, calls >>
  /\ pc' = "seq_done"
  /\ UNCHANGED << cache, batch_size, cpu_count, paths, path_iter, pending, task, result,
                  done, batch_idx, batch_imgs, pbar, embed_batches, kept, X, meta, index,
                  submitted, consumed, writes, writers, order >>
  /\ UNCHANGED << buildvars, dlvars, helpervars >>

NextSeq ==
  \/ SeqPaths
  \/ SeqStep
  \/ SeqFlush

SpecSeq == InitSeq /\ [][NextSeq]_vars

Next ==
  \/ ValidateCache
  \/ RefillPending
  \/ \E f \in Rec : WorkerStart(f)
  \/ \E f \in Rec : WorkerFinish(f)
  \/ Wait
  \/ \E f \in Rec : ProcessDone(f)
  \/ \E f \in Rec : ProcessRaise(f)
  \/ EmbedReturn
  \/ Flush
  \/ Compact

Spec == Init /\ [][Next]_vars

\* ------------------------------------------------- the persistence phase
\* Lines 245-315 file by file. A file is opened for writing (created, or emptied if
\* it is there) and then filled; the process may die between any two steps.
BuildFiles == {"mtg_embeddings.npy", "mtg_cards.faiss", "mtg_meta.jsonl", "build_manifest.json"}

\* What a finished earlier run with the kept records k left in out_dir.
Artifacts(k) == [f \in OutputFiles |-> IF f \in BuildFiles THEN File(k) ELSE Absent]

persist_rest == << cache, batch_size, cpu_count, paths, path_iter, pending, task, result, done,
                  batch_idx, batch_imgs, vecs, good, pbar, embed_batches, submitted, consumed,
                  writes, writers, order, calls, validate_cache, missing, validation_failed,
                  missing_images, validation_failures_list, dlvars, fetchvars, valvars,
                  argvars, queryvars, checkvars, exportvars >>

\* Lines 245-256: compaction and the normalization check, in memory.
PersistCompact ==
  /\ pc = "compact"
  /\ kept' = Where(good)
  /\ X' = Normalize([r \in 1 .. Len(Where(good)) |-> vecs[Where(good)[r]]])
  /\ meta' = MetaRows(Where(good))
  /\ pc' = "np_save"
  /\ UNCHANGED << index, out_dir, manifest, disk, persist_rest >>

\* open(file, "wb") or open(file, "w") inside np.save (line 261),
\* faiss.write_index (line 272), line 277 and line 313.
PersistOpen(at, file, next) ==
  /\ pc = at
  /\ disk' = [disk EXCEPT ![file] = File(<< >>)]
  /\ pc' = next
  /\ UNCHANGED << kept, X, meta, index, out_dir, manifest, persist_rest >>

\* Line 261: the rows of X, which are the vectors of the records kept.
NpSave ==
  /\ pc = "np_write"
  /\ disk' = [disk EXCEPT !["mtg_embeddings.npy"] = File([r \in 1 .. Len(X) |-> kept[r]])]
  /\ out_dir' = Append(out_dir, [file |-> "mtg_embeddings.npy", rows |-> Len(X)])
  /\ pc' = "index_build"
  /\ UNCHANGED << kept, X, meta, index, manifest, persist_rest >>

\* Lines 265-271: the index gets the rows of X under the identifiers 0..M-1.
IndexBuild ==
  /\ pc = "index_build"
  /\ index' = add_with_ids(X)
  /\ pc' = "index_save"
  /\ UNCHANGED << kept, X, meta, out_dir, manifest, disk, persist_rest >>

\* Line 272: entry id of the index file is the vector of record kept[id + 1].
WriteIndex ==
  /\ pc = "index_write"
  /\ disk' = [disk EXCEPT !["mtg_cards.faiss"] = File([r \in 1 .. Len(X) |-> kept[r]])]
  /\ out_dir' = Append(out_dir, [file |-> "mtg_cards.faiss", rows |-> Len(X)])
  /\ pc' = "meta_save"
  /\ UNCHANGED << kept, X, meta, index, manifest, persist_rest >>

\* Lines 278-279: one line of the metadata file, or the end of the with block.
WriteMeta ==
  /\ pc = "meta_write"
  /\ LET n == Len(disk["mtg_meta.jsonl"].rows)
     IN IF n < Len(meta)
          THEN /\ disk' = [disk EXCEPT !["mtg_meta.jsonl"].rows = Append(@, meta[n + 1].face_id)]
               /\ UNCHANGED << pc, out_dir >>
          ELSE /\ out_dir' = Append(out_dir, [file |-> "mtg_meta.jsonl", rows |-> Len(meta)])
               /\ pc' = "manifest_save"
               /\ UNCHANGED disk
  /\ UNCHANGED << kept, X, meta, index, manifest, persist_rest >>

\* Lines 284-314: the manifest of this run.
WriteManifest ==
  /\ pc = "manifest_write"
  /\ manifest' = Statistics(Len(X))
  /\ disk' = [disk EXCEPT !["build_manifest.json"] = File(kept)]
  /\ out_dir' = Append(out_dir, [file |-> "build_manifest.json", rows |-> 1])
  /\ pc' = "done"
  /\ UNCHANGED << kept, X, meta, index, persist_rest >>

\* The process dies during the persistence phase; the files stay as they are.
Crash ==
  /\ pc \in {"np_save", "np_write", "index_build", "index_save", "index_write", "meta_save",
              "meta_write", "manifest_save", "manifest_write"}
  /\ pc' = "killed"
  /\ UNCHANGED << kept, X, meta, index, out_dir, manifest, disk, persist_rest >>

\* build_embeddings_from_cache on a cache of decodable and missing files, with an
\* out_dir that is empty or holds what an earlier run wrote.
InitPersist ==
  /\ cache \in [Rec -> {"missing", "image"}]
  /\ validate_cache = TRUE
  /\ batch_size = MaxBatch
  /\ cpu_count = MaxCpu
  /\ pc = "validate"
  /\ SchedStart
  /\ DlIdle
  /\ FetchIdle
  /\ ValIdle
  /\ ArgsIdle
  /\ QueryIdle
  /\ CheckIdle
  /\ ExportIdle
  /\ \E S \in SUBSET Rec :
       disk = IF S = {} THEN [f \in OutputFiles |-> Absent]
              ELSE Artifacts(Where([i \in Rec |-> i \in S]))

NextPersist ==
  \/ ValidateCache
  \/ RefillPending
  \/ \E f \in Rec : WorkerStart(f)
  \/ \E f \in Rec : WorkerFinish(f)
  \/ Wait
  \/ \E f \in Rec : ProcessDone(f)
  \/ EmbedReturn
  \/ Flush
  \/ PersistCompact
  \/ PersistOpen("np_save", "mtg_embeddings.npy", "np_write")
  \/ NpSave
  \/ IndexBuild
  \/ PersistOpen("index_save", "mtg_cards.faiss", "index_write")
  \/ WriteIndex
  \/ PersistOpen("meta_save", "mtg_meta.jsonl", "meta_write")
  \/ WriteMeta
  \/ PersistOpen("manifest_save", "build_manifest.json", "manifest_write")
  \/ WriteManifest
  \/ Crash

SpecPersist == InitPersist /\ [][NextPersist]_vars

\* ------------------------------------------------- export_for_browser.py
export_rest == << schedvars, dlvars, fetchvars, valvars, argvars, queryvars, checkvars >>

\* Lines 23-28: without the embeddings file main exits.
ExportValidate ==
  /\ export_pc = "validate"
  /\ export_pc' = IF disk["mtg_embeddings.npy"].there THEN "load" ELSE "exit"
  /\ UNCHANGED << disk, format, loaded_X, loaded_meta, export_rest >>

\* Line 48.
lengths_differ_never(m, x) == FALSE

lengths_differ(m, x) == Len(m) # Len(x)

\* Lines 31-49: the embeddings and the metadata are read (a missing metadata file
\* raises), and main exits when their lengths differ.
ExportLoad ==
  /\ export_pc = "load"
  /\ loaded_X' = disk["mtg_embeddings.npy"].rows
  /\ IF ~disk["mtg_meta.jsonl"].there
       THEN /\ export_pc' = "raised"
            /\ UNCHANGED loaded_meta
       ELSE /\ loaded_meta' = disk["mtg_meta.jsonl"].rows
            /\ export_pc' = IF lengths_differ(disk["mtg_meta.jsonl"].rows,
                                              disk["mtg_embeddings.npy"].rows)
                              THEN "exit" ELSE "export"
  /\ UNCHANGED << disk, format, export_rest >>

\* Lines 54 and 76.
OUT_BIN == IF format = "float32" THEN "embeddings.f32bin" ELSE "embeddings.i8bin"

\* Lines 52-57 and 74-82: the rows of X, as they are or quantized, in their order.
ExportBin ==
  /\ export_pc = "export"
  /\ disk' = [disk EXCEPT ![OUT_BIN] = File(loaded_X)]
  /\ export_pc' = "meta"
  /\ UNCHANGED << format, loaded_X, loaded_meta, export_rest >>

\* Lines 62-72, 89-99 and 101: meta.json with "records": meta.
ExportMeta ==
  /\ export_pc = "meta"
  /\ disk' = [disk EXCEPT !["meta.json"] = File(loaded_meta)]
  /\ export_pc' = "done"
  /\ UNCHANGED << format, loaded_X, loaded_meta, export_rest >>

\* The lists of records a file of the input directory may hold.
Listings == {Where([i \in Rec |-> i \in S]) : S \in SUBSET Rec}

\* main has parsed its arguments; the input directory holds any embeddings and
\* metadata files, or lacks them.
InitExport ==
  /\ cache = [i \in Rec |-> "missing"]
  /\ pc = "none"
  /\ batch_size = 1
  /\ cpu_count = 1
  /\ validate_cache = TRUE
  /\ SchedStart
  /\ DlIdle
  /\ FetchIdle
  /\ ValIdle
  /\ ArgsIdle
  /\ QueryIdle
  /\ CheckIdle
  /\ \E e, m \in {Absent} \cup {File(l) : l \in Listings} :
       disk = [f \in OutputFiles |-> IF f = "mtg_embeddings.npy" THEN e
                                     ELSE IF f = "mtg_meta.jsonl" THEN m
                                     ELSE Absent]
  /\ export_pc = "validate"
  /\ format \in {"float32", "int8"}
  /\ loaded_X = << >>
  /\ loaded_meta = << >>

NextExport ==
  \/ ExportValidate
  \/ ExportLoad
  \/ ExportBin
  \/ ExportMeta

SpecExport == InitExport /\ [][NextExport]_vars

\* ------------------------------------------------- test_perfect_match.py
\* The inner product of two unit vectors, in hundredths: 1 for equal vectors, less
\* for any other pair.
Similarity(a, b) == IF a = b THEN 100 ELSE 99

\* Line 182, index.search(q, k=1) taken as an exact search: an identifier whose
\* vector is nearest to q; among equally near vectors the index returns one of
\* them, the same for every query with the same q.
search(q) ==
  {id \in DOMAIN index :
     \A other \in DOMAIN index : Similarity(index[id], q) >= Similarity(index[other], q)}

\* A build on records of which some may share a picture (the same image_url, or
\* files with the same content).
InitQuery ==
  /\ cache \in [Rec -> {"missing", "raising", "image"}]
  /\ validate_cache = TRUE
  /\ batch_size = MaxBatch
  /\ cpu_count = MaxCpu
  /\ pc = "validate"
  /\ SchedStart
  /\ DlIdle
  /\ FetchIdle
  /\ ValIdle
  /\ ArgsIdle
  /\ CheckIdle
  /\ OutIdle
  /\ pixels \in {f \in [Rec -> Rec] :
                   \A i \in Rec : f[i] <= Cardinality({f[j] : j \in 0 .. (i - 1)})}
  /\ top1 = NoHit

\* Lines 164-185: the image of a record that is in the index is loaded and
\* embedded as the build did, and the index is searched for its nearest vector.
Query(i) ==
  /\ pc = "done"
  /\ top1 = NoHit
  /\ \E r \in 1 .. Len(kept) : kept[r] = i
  /\ LET q == encode_images(<< load_image_rgb(cache_file(i)) >>)[1]
     IN \E id \in search(q) :
          top1' = [rec |-> i, id |-> id, score |-> Similarity(index[id], q)]
  /\ UNCHANGED << pixels, schedvars, dlvars, fetchvars, valvars, argvars, checkvars, outvars >>

NextQuery ==
  \/ Next
  \/ \E i \in Rec : Query(i)

SpecQuery == InitQuery /\ [][NextQuery]_vars

\* ------------------------------------------------- helpers/atomic_io.py
\* The bytes every successful response for a URL carries, in chunks.
Payload == [k \in 1 .. PayloadChunks |-> k]

\* What an earlier run may have left: a cached file that is not the payload, and
\* the remnant of an interrupted write.
OldData == << PayloadChunks + 1 >>
StaleData == << 1 >>

PriorTarget(u) == NumDl + u
PriorPart(u) == 2 * NumDl + u

\* A file the previous run of this program wrote.
FetchedTarget(u) == 3 * NumDl + u

\* The inode a task gets when open() creates the file.
TaskInode(i) == i + 1

\* f.write(chunk) at the file object's own offset.
WriteAt(c, o, v) ==
  [k \in 1 .. Max(Len(c), o + 1) |-> IF k = o + 1 THEN v ELSE IF k <= Len(c) THEN c[k] ELSE 0]

\* A file's blocks are freed when no name and no open descriptor refers to it.
Sweep(ino, t, p, f) ==
  [n \in Inodes |->
     IF (\E u \in Urls : t[u] = n \/ p[u] = n) \/ (\E i \in DRec : f[i] = n)
       THEN ino[n] ELSE << >>]

Exists(u) == target[u] # 0
Data(u) == IF target[u] = 0 THEN << >> ELSE inode[target[u]]
FileState(u) == << Exists(u), Data(u) >>

dlrest == << how, collected, succeeded, failed, failed_downloads, opc, requests, run, snap,
             url, mode, outcome, killed >>

\* Lines 35-42 and 81-88: temp_path, mkdir(parents, exist_ok), open(temp_path, "wb").
AwOpenTarget(i) ==
  /\ ~killed
  /\ dpc[i] = "open"
  /\ \/ /\ faults < MaxFaults
        /\ faults' = faults + 1
        /\ dpc' = [dpc EXCEPT ![i] = "cleanup"]
        /\ UNCHANGED << target, part, inode, fd, off >>
     \/ /\ IF target[url[i]] # 0
             THEN /\ inode' = [inode EXCEPT ![target[url[i]]] = << >>]
                  /\ fd' = [fd EXCEPT ![i] = target[url[i]]]
                  /\ UNCHANGED target
             ELSE /\ target' = [target EXCEPT ![url[i]] = TaskInode(i)]
                  /\ inode' = [inode EXCEPT ![TaskInode(i)] = << >>]
                  /\ fd' = [fd EXCEPT ![i] = TaskInode(i)]
        /\ off' = [off EXCEPT ![i] = 0]
        /\ dpc' = [dpc EXCEPT ![i] = "write"]
        /\ UNCHANGED << part, faults >>
  /\ UNCHANGED << ret, dlrest, schedvars, helpervars >>

AwOpen(i) ==
  /\ ~killed
  /\ dpc[i] = "open"
  /\ \/ /\ faults < MaxFaults
        /\ faults' = faults + 1
        /\ dpc' = [dpc EXCEPT ![i] = "cleanup"]
        /\ UNCHANGED << part, inode, fd, off >>
     \/ /\ IF part[url[i]] # 0
             THEN /\ inode' = [inode EXCEPT ![part[url[i]]] = << >>]
                  /\ fd' = [fd EXCEPT ![i] = part[url[i]]]
                  /\ UNCHANGED part
             ELSE /\ part' = [part EXCEPT ![url[i]] = TaskInode(i)]
                  /\ inode' = [inode EXCEPT ![TaskInode(i)] = << >>]
                  /\ fd' = [fd EXCEPT ![i] = TaskInode(i)]
        /\ off' = [off EXCEPT ![i] = 0]
        /\ dpc' = [dpc EXCEPT ![i] = "write"]
        /\ UNCHANGED faults
  /\ UNCHANGED << target, ret, dlrest, schedvars, helpervars >>

\* Lines 43 and 89-91: the next chunk is taken from the source and written; the
\* source or the write may raise an OSError, and a stream may raise anything else.
AwWrite(i) ==
  /\ ~killed
  /\ dpc[i] = "write"
  /\ \/ /\ off[i] < body[url[i]]
        /\ inode' = [inode EXCEPT ![fd[i]] = WriteAt(@, off[i], off[i] + 1)]
        /\ off' = [off EXCEPT ![i] = @ + 1]
        /\ dpc' = [dpc EXCEPT ![i] = IF off[i] + 1 = body[url[i]] THEN "sync" ELSE "write"]
        /\ UNCHANGED << fd, faults, ret >>
     \/ /\ off[i] = body[url[i]]
        /\ dpc' = [dpc EXCEPT ![i] = "sync"]
        /\ UNCHANGED << inode, off, fd, faults, ret >>
     \/ /\ faults < MaxFaults
        /\ faults' = faults + 1
        /\ fd' = [fd EXCEPT ![i] = 0]
        /\ off' = [off EXCEPT ![i] = 0]
        /\ inode' = Sweep(inode, target, part, fd')
        /\ dpc' = [dpc EXCEPT ![i] = "cleanup"]
        /\ UNCHANGED ret
     \/ /\ mode = "stream"
        /\ faults < MaxFaults
        /\ faults' = faults + 1
        /\ fd' = [fd EXCEPT ![i] = 0]
        /\ off' = [off EXCEPT ![i] = 0]
        /\ inode' = Sweep(inode, target, part, fd')
        /\ ret' = [ret EXCEPT ![i] = "raised"]
        /\ dpc' = [dpc EXCEPT ![i] = "returned"]
  /\ UNCHANGED << target, part, dlrest, schedvars, helpervars >>

\* Lines 44-49 and 92-97: flush, fsync, close, os.replace(temp_path, target_path).
AwReplace(i) ==
  /\ ~killed
  /\ dpc[i] = "sync"
  /\ fd' = [fd EXCEPT ![i] = 0]
  /\ \/ /\ faults < MaxFaults
        /\ faults' = faults + 1
        /\ dpc' = [dpc EXCEPT ![i] = "cleanup"]
        /\ UNCHANGED << target, part, ret >>
     \/ /\ part[url[i]] = 0
        /\ dpc' = [dpc EXCEPT ![i] = "cleanup"]
        /\ UNCHANGED << target, part, ret, faults >>
     \/ /\ part[url[i]] # 0
        /\ target' = [target EXCEPT ![url[i]] = part[url[i]]]
        /\ part' = [part EXCEPT ![url[i]] = 0]
        /\ ret' = [ret EXCEPT ![i] = "True"]
        /\ dpc' = [dpc EXCEPT ![i] = "returned"]
        /\ UNCHANGED faults
  /\ off' = [off EXCEPT ![i] = 0]
  /\ inode' = Sweep(inode, target', part', fd')
  /\ UNCHANGED << dlrest, schedvars, helpervars >>

\* Lines 51-58 and 99-106: the OSError handler removes temp_path if it exists
\* (an error of unlink is swallowed) and returns False.
AwCleanup(i) ==
  /\ ~killed
  /\ dpc[i] = "cleanup"
  /\ \/ /\ part' = [part EXCEPT ![url[i]] = 0]
        /\ UNCHANGED faults
     \/ /\ part[url[i]] # 0
        /\ faults < MaxFaults
        /\ faults' = faults + 1
        /\ UNCHANGED part
  /\ ret' = [ret EXCEPT ![i] = "False"]
  /\ dpc' = [dpc EXCEPT ![i] = "returned"]
  /\ inode' = Sweep(inode, target, part', fd)
  /\ UNCHANGED << target, fd, off, dlrest, schedvars, helpervars >>

\* The process is killed: no thread takes another step, the files stay as they are.
Kill ==
  /\ ~killed
  /\ opc # "none" \/ \E i \in DRec : dpc[i] # "none"
  /\ killed' = TRUE
  /\ UNCHANGED << url, target, part, inode, mode, dpc, fd, off, ret, outcome, how, collected,
                  succeeded, failed, failed_downloads, opc, requests, faults, run, snap,
                  schedvars, helpervars >>

\* One call atomic_write(target, data) or atomic_write_stream(target, stream) by a
\* single caller, on a directory that may hold an older file and a stale .part.
InitWrite ==
  /\ cache = [i \in Rec |-> "missing"]
  /\ pc = "none"
  /\ validate_cache = TRUE
  /\ HelpersIdle
  /\ batch_size = 1
  /\ cpu_count = 1
  /\ SchedStart
  /\ url = [i \in DRec |-> 1]
  /\ mode \in {"stream", "bytes"}
  /\ \E t \in {"absent", "empty", "old"}, p \in {"absent", "stale"} :
       /\ target = [u \in Urls |-> IF u = 1 /\ t # "absent" THEN PriorTarget(u) ELSE 0]
       /\ part = [u \in Urls |-> IF u = 1 /\ p # "absent" THEN PriorPart(u) ELSE 0]
       /\ inode = [n \in Inodes |->
                     IF n = PriorTarget(1) /\ t = "old" THEN OldData
                     ELSE IF n = PriorPart(1) /\ p = "stale" THEN StaleData ELSE << >>]
       /\ snap = [u \in Urls |-> IF u = 1 /\ t # "absent"
                                   THEN << TRUE, IF t = "old" THEN OldData ELSE << >> >>
                                   ELSE << FALSE, << >> >>]
  /\ dpc = [i \in DRec |-> IF i = 0 THEN "open" ELSE "none"]
  /\ fd = [i \in DRec |-> 0]
  /\ off = [i \in DRec |-> 0]
  /\ ret = [i \in DRec |-> "-"]
  /\ outcome = [i \in DRec |-> NoOutcome]
  /\ how = [i \in DRec |-> "-"]
  /\ collected = [i \in DRec |-> 0]
  /\ succeeded = 0
  /\ failed = 0
  /\ failed_downloads = << >>
  /\ opc = "none"
  /\ requests = [u \in Urls |-> 0]
  /\ faults = 0
  /\ killed = FALSE
  /\ run = 1

NextWrite ==
  \/ \E i \in DRec : AwOpen(i)
  \/ \E i \in DRec : AwWrite(i)
  \/ \E i \in DRec : AwReplace(i)
  \/ \E i \in DRec : AwCleanup(i)
  \/ Kill

SpecWrite == InitWrite /\ [][NextWrite]_vars

\* ------------------------------------------------- download_images.py
workers == 16

Running == {i \in DRec : dpc[i] \notin {"none", "queued", "finished"}}

awvars == << part, inode, fd, off, ret >>
orch == << run, snap, url, mode, killed >>

\* What download_single_image hands to its future: a path, an error, or an
\* exception that escaped the function.
Cached(i) == [kind |-> "path", error |-> "-"]
Failure(reason) == [kind |-> "None", error |-> reason]
Raised == [kind |-> "raised", error |-> "FileNotFoundError"]

\* Line 134: result_path is None.
is_failed_never(o) == FALSE

is_failed(o) == o.kind = "None"

\* Lines 131-144: as_completed hands the finished future to the loop body, which
\* touches nothing but the orchestrator's own counters, so it is taken together
\* with the task's last step; future.result() re-raises what escaped the task,
\* and that ends download_all_images.
Collect(i, o) ==
  IF opc # "collect" THEN UNCHANGED << collected, succeeded, failed, failed_downloads, opc >>
  ELSE IF o.kind = "raised"
    THEN /\ opc' = "aborted"
         /\ UNCHANGED << collected, succeeded, failed, failed_downloads >>
    ELSE /\ collected' = [collected EXCEPT ![i] = @ + 1]
         /\ IF is_failed(o)
              THEN /\ failed' = failed + 1
                   /\ failed_downloads' = Append(failed_downloads, [rec |-> i, error |-> o.error])
                   /\ UNCHANGED succeeded
              ELSE /\ succeeded' = succeeded + 1
                   /\ UNCHANGED << failed, failed_downloads >>
         /\ opc' = IF \A j \in DRec \ {i} : collected[j] = 1 THEN "summary" ELSE "collect"

\* The task returns o (or raises) and its future completes.
Finish(i, o, h) ==
  /\ outcome' = [outcome EXCEPT ![i] = o]
  /\ how' = [how EXCEPT ![i] = h]
  /\ dpc' = [dpc EXCEPT ![i] = "finished"]
  /\ Collect(i, o)

Stay == UNCHANGED << outcome, how, collected, succeeded, failed, failed_downloads, opc >>

\* Line 43, right operand: st_size > 0 counts as a cache hit.
cache_hit_never(size) == FALSE

cache_hit(size) == size > 0

\* A pool thread takes the task (FIFO, at most `workers` at a time); line 43, left
\* operand: fp.exists().
DlExists1(i) ==
  /\ ~killed
  /\ dpc[i] = "queued"
  /\ \A j \in DRec : dpc[j] = "queued" => i <= j
  /\ Cardinality(Running) < workers
  /\ dpc' = [dpc EXCEPT ![i] = IF Exists(url[i]) THEN "stat1" ELSE "exists2"]
  /\ Stay
  /\ UNCHANGED << target, awvars, requests, faults, orch, schedvars, helpervars >>

\* Line 43, right operand: fp.stat() raises when the file is gone by now.
DlStat1(i) ==
  /\ ~killed
  /\ dpc[i] = "stat1"
  /\ IF ~Exists(url[i]) THEN Finish(i, Raised, "failed")
     ELSE IF cache_hit(Len(Data(url[i]))) THEN Finish(i, Cached(i), "cached")
     ELSE dpc' = [dpc EXCEPT ![i] = "exists2"] /\ Stay
  /\ UNCHANGED << target, awvars, requests, faults, orch, schedvars, helpervars >>

\* Line 47, left operand.
DlExists2(i) ==
  /\ ~killed
  /\ dpc[i] = "exists2"
  /\ dpc' = [dpc EXCEPT ![i] = IF Exists(url[i]) THEN "stat2" ELSE "get"]
  /\ Stay
  /\ UNCHANGED << target, awvars, requests, faults, orch, schedvars, helpervars >>

\* Line 47, right operand.
DlStat2(i) ==
  /\ ~killed
  /\ dpc[i] = "stat2"
  /\ IF ~Exists(url[i]) THEN Finish(i, Raised, "failed")
     ELSE dpc' = [dpc EXCEPT ![i] = IF Len(Data(url[i])) = 0 THEN "unlink" ELSE "get"] /\ Stay
  /\ UNCHANGED << target, awvars, requests, faults, orch, schedvars, helpervars >>

\* Line 48: fp.unlink() removes whatever the name holds now, and raises when it holds
\* nothing.
DlUnlink(i) ==
  /\ ~killed
  /\ dpc[i] = "unlink"
  /\ IF ~Exists(url[i])
       THEN Finish(i, Raised, "failed") /\ UNCHANGED << target, inode >>
       ELSE /\ target' = [target EXCEPT ![url[i]] = 0]
            /\ inode' = Sweep(inode, target', part, fd)
            /\ dpc' = [dpc EXCEPT ![i] = "get"]
            /\ Stay
  /\ UNCHANGED << part, fd, off, ret, requests, faults, orch, schedvars, helpervars >>

\* Lines 51-52 and 60-61: session.get and raise_for_status; a network error or an
\* error status is caught and returned as the record's error.
DlGet(i) ==
  /\ ~killed
  /\ dpc[i] = "get"
  /\ requests' = [requests EXCEPT ![url[i]] = @ + 1]
  /\ \/ /\ dpc' = [dpc EXCEPT ![i] = "open"]
        /\ Stay
        /\ UNCHANGED faults
     \/ /\ faults < MaxFaults
        /\ faults' = faults + 1
        /\ \E reason \in {"ConnectionError", "HTTPError"} : Finish(i, Failure(reason), "failed")
  /\ UNCHANGED << target, awvars, orch, schedvars, helpervars >>

\* Lines 55-61: the result of atomic_write_stream becomes the task's result.
DlWritten(i) ==
  /\ ~killed
  /\ opc # "none"
  /\ dpc[i] = "returned"
  /\ CASE ret[i] = "True" -> Finish(i, Cached(i), "downloaded")
       [] ret[i] = "False" -> Finish(i, Failure("Failed to write file"), "failed")
       [] OTHER -> Finish(i, Failure("Exception"), "failed")
  /\ UNCHANGED << target, awvars, requests, faults, orch, schedvars, helpervars >>

\* The named files a process leaves behind when it ends, renumbered.
LeftFiles ==
  /\ target' = [u \in Urls |-> IF target[u] = 0 THEN 0
                                ELSE IF target[u] <= NumDl THEN FetchedTarget(u)
                                ELSE PriorTarget(u)]
  /\ part' = [u \in Urls |-> IF part[u] = 0 THEN 0 ELSE PriorPart(u)]
  /\ inode' = [n \in Inodes |->
                IF \E u \in Urls : target'[u] = n
                  THEN inode[target[CHOOSE u \in Urls : target'[u] = n]]
                ELSE IF \E u \in Urls : part'[u] = n
                  THEN inode[part[CHOOSE u \in Urls : part'[u] = n]]
                ELSE << >>]

\* download_all_images is run again on the same records and cache directory, after
\* the first run ended. The first process is gone: its descriptors are closed and
\* only the named files remain, numbered here as the files a run starts with.
Rerun ==
  /\ run = 1
  /\ opc \in {"summary", "aborted"}
  /\ \A i \in DRec : dpc[i] = "finished"
  /\ run' = 2
  /\ killed' = FALSE
  /\ snap' = [u \in Urls |-> FileState(u)]
  /\ requests' = [u \in Urls |-> 0]
  /\ dpc' = [i \in DRec |-> "queued"]
  /\ fd' = [i \in DRec |-> 0]
  /\ off' = [i \in DRec |-> 0]
  /\ ret' = [i \in DRec |-> "-"]
  /\ outcome' = [i \in DRec |-> NoOutcome]
  /\ how' = [i \in DRec |-> "-"]
  /\ collected' = [i \in DRec |-> 0]
  /\ succeeded' = 0
  /\ failed' = 0
  /\ failed_downloads' = << >>
  /\ opc' = "collect"
  /\ LeftFiles
  /\ UNCHANGED << url, mode, faults, schedvars, helpervars >>

\* Lines 74-127: the records, the cache directory as earlier runs left it (a file
\* is absent, zero bytes, or complete), every record submitted to the pool.
DownloadStartAny ==
  /\ cache = [i \in Rec |-> "missing"]
  /\ pc = "none"
  /\ validate_cache = TRUE
  /\ FetchQuiet
  /\ ValIdle
  /\ ArgsIdle
  /\ QueryIdle
  /\ CheckIdle
  /\ OutIdle
  /\ batch_size = 1
  /\ cpu_count = 1
  /\ SchedStart
  /\ url \in {f \in [DRec -> Urls] :
                \A i \in DRec : f[i] <= 1 + Cardinality({f[j] : j \in 0 .. (i - 1)})}
  /\ mode = "stream"
  /\ \E prior \in [Urls -> {"absent", "empty", "complete"}] :
       /\ \A u \in Urls : (\A i \in DRec : url[i] # u) => prior[u] = "absent"
       /\ target = [u \in Urls |-> IF prior[u] = "absent" THEN 0 ELSE PriorTarget(u)]
       /\ inode = [n \in Inodes |->
                     IF \E u \in Urls : n = PriorTarget(u) /\ prior[u] = "complete"
                       THEN Payload ELSE << >>]
       /\ snap = [u \in Urls |-> << prior[u] # "absent",
                                    IF prior[u] = "complete" THEN Payload ELSE << >> >>]
  /\ part = [u \in Urls |-> 0]
  /\ dpc = [i \in DRec |-> "queued"]
  /\ fd = [i \in DRec |-> 0]
  /\ off = [i \in DRec |-> 0]
  /\ ret = [i \in DRec |-> "-"]
  /\ outcome = [i \in DRec |-> NoOutcome]
  /\ how = [i \in DRec |-> "-"]
  /\ collected = [i \in DRec |-> 0]
  /\ succeeded = 0
  /\ failed = 0
  /\ failed_downloads = << >>
  /\ opc = "collect"
  /\ requests = [u \in Urls |-> 0]
  /\ killed = FALSE
  /\ run = 1

\* Every server answer carries the whole picture.
DownloadStart ==
  /\ DownloadStartAny
  /\ body = FullBody

InitDownload ==
  /\ DownloadStart
  /\ faults = 0

DownloadStep ==
  \/ \E i \in DRec : DlExists1(i)
  \/ \E i \in DRec : DlStat1(i)
  \/ \E i \in DRec : DlExists2(i)
  \/ \E i \in DRec : DlStat2(i)
  \/ \E i \in DRec : DlUnlink(i)
  \/ \E i \in DRec : DlGet(i)
  \/ \E i \in DRec : AwOpen(i)
  \/ \E i \in DRec : AwWrite(i)
  \/ \E i \in DRec : AwReplace(i)
  \/ \E i \in DRec : AwCleanup(i)
  \/ \E i \in DRec : DlWritten(i)

NextDownload ==
  \/ DownloadStep
  \/ Rerun

SpecDownload == InitDownload /\ [][NextDownload]_vars

\* ------------------------------------------------- download_images.py, interrupted
\* A KeyboardInterrupt reaches the main thread inside the as_completed loop of
\* lines 131-144: it leaves the loop and the tqdm block and enters the exit of the
\* "with ThreadPoolExecutor" block of line 122, which is shutdown(wait=True)
\* without cancel_futures: the main thread joins the pool and collects nothing
\* more, while the pool keeps taking the work items already submitted.
Interrupt ==
  /\ ~killed
  /\ opc = "collect"
  /\ opc' = "interrupted"
  /\ UNCHANGED << url, target, part, inode, mode, dpc, fd, off, ret, outcome, how, collected,
                  succeeded, failed, failed_downloads, requests, faults, killed, run, snap,
                  schedvars, helpervars >>

\* The pool has drained and joined: the exception leaves download_all_images.
InterruptEnd ==
  /\ ~killed
  /\ opc = "interrupted"
  /\ \A i \in DRec : dpc[i] = "finished"
  /\ opc' = "aborted"
  /\ UNCHANGED << url, target, part, inode, mode, dpc, fd, off, ret, outcome, how, collected,
                  succeeded, failed, failed_downloads, requests, faults, killed, run, snap,
                  schedvars, helpervars >>

NextInterrupt ==
  \/ DownloadStep
  \/ Interrupt
  \/ InterruptEnd

\* A download run in which at most one step meets an environment failure, and
\* which may be interrupted at any moment of its collection loop.
InitInterrupt ==
  /\ DownloadStart
  /\ faults = MaxFaults - 1

SpecInterrupt == InitInterrupt /\ [][NextInterrupt]_vars

\* ------------------------------------------------- build_mtg_faiss.py, download_image
\* build_index calls download_image(url, cache_dir) for one record after the
\* other (lines 249-250) without a session, so every call takes the loop of lines
\* 108-121, with the default of line 72.
retries == 3

lgrest == << part, ret, collected, succeeded, failed, failed_downloads, opc, faults, killed,
            run, snap, url, mode, schedvars, helpervars >>

\* Lines 117-120: the except clause of an attempt; requests[u] is the attempt.
LgExcept(i) ==
  IF requests[url[i]] = retries
    THEN /\ outcome' = [outcome EXCEPT ![i] = Failure("Exception")]
         /\ how' = [how EXCEPT ![i] = "failed"]
         /\ dpc' = [dpc EXCEPT ![i] = "lg_returned"]
    ELSE /\ dpc' = [dpc EXCEPT ![i] = "lg_get"]
         /\ UNCHANGED << outcome, how >>

\* Lines 87-91: a file that is there and not empty is returned as it is.
LgCheck(i) ==
  /\ ~killed
  /\ dpc[i] = "lg_check"
  /\ \A j \in DRec : j < i => dpc[j] = "lg_returned"
  /\ IF Exists(url[i]) /\ Len(Data(url[i])) > 0
       THEN /\ outcome' = [outcome EXCEPT ![i] = Cached(i)]
            /\ how' = [how EXCEPT ![i] = "cached"]
            /\ dpc' = [dpc EXCEPT ![i] = "lg_returned"]
            /\ UNCHANGED requests
       ELSE /\ dpc' = [dpc EXCEPT ![i] = "lg_get"]
            /\ requests' = [requests EXCEPT ![url[i]] = 0]
            /\ UNCHANGED << outcome, how >>
  /\ UNCHANGED << target, inode, fd, off, lgrest >>

\* Lines 108-111: the next attempt; requests.get or raise_for_status may raise.
LgGet(i) ==
  /\ ~killed
  /\ dpc[i] = "lg_get"
  /\ requests[url[i]] < retries
  /\ requests' = [requests EXCEPT ![url[i]] = @ + 1]
  /\ \/ /\ dpc' = [dpc EXCEPT ![i] = "lg_open"]
        /\ UNCHANGED << outcome, how >>
     \/ IF requests[url[i]] + 1 = retries
          THEN /\ outcome' = [outcome EXCEPT ![i] = Failure("Exception")]
               /\ how' = [how EXCEPT ![i] = "failed"]
               /\ dpc' = [dpc EXCEPT ![i] = "lg_returned"]
          ELSE /\ dpc' = [dpc EXCEPT ![i] = "lg_get"]
               /\ UNCHANGED << outcome, how >>
  /\ UNCHANGED << target, inode, fd, off, lgrest >>

\* Line 112: open(fp, "wb") creates the cache file itself, or empties it.
LgOpen(i) ==
  /\ ~killed
  /\ dpc[i] = "lg_open"
  /\ IF target[url[i]] # 0
       THEN /\ inode' = [inode EXCEPT ![target[url[i]]] = << >>]
            /\ fd' = [fd EXCEPT ![i] = target[url[i]]]
            /\ UNCHANGED target
       ELSE /\ target' = [target EXCEPT ![url[i]] = TaskInode(i)]
            /\ inode' = [inode EXCEPT ![TaskInode(i)] = << >>]
            /\ fd' = [fd EXCEPT ![i] = TaskInode(i)]
  /\ off' = [off EXCEPT ![i] = 0]
  /\ dpc' = [dpc EXCEPT ![i] = "lg_write"]
  /\ UNCHANGED << outcome, how, requests, lgrest >>

\* Lines 113-116: the next chunk is written to the cache file, or the transfer
\* breaks and the with block closes the file as it is; after the last chunk the
\* path is returned.
LgWrite(i) ==
  /\ ~killed
  /\ dpc[i] = "lg_write"
  /\ \/ /\ inode' = [inode EXCEPT ![fd[i]] = WriteAt(@, off[i], off[i] + 1)]
        /\ IF off[i] + 1 = PayloadChunks
             THEN /\ fd' = [fd EXCEPT ![i] = 0]
                  /\ off' = [off EXCEPT ![i] = 0]
                  /\ outcome' = [outcome EXCEPT ![i] = Cached(i)]
                  /\ how' = [how EXCEPT ![i] = "downloaded"]
                  /\ dpc' = [dpc EXCEPT ![i] = "lg_returned"]
             ELSE /\ off' = [off EXCEPT ![i] = @ + 1]
                  /\ UNCHANGED << fd, outcome, how, dpc >>
     \/ /\ fd' = [fd EXCEPT ![i] = 0]
        /\ off' = [off EXCEPT ![i] = 0]
        /\ LgExcept(i)
        /\ UNCHANGED inode
  /\ UNCHANGED << target, requests, lgrest >>

\* build_index is run again on the same cache directory after the first process
\* returned from its download loop or was killed.
LgRerun ==
  /\ run = 1
  /\ killed \/ \A i \in DRec : dpc[i] = "lg_returned"
  /\ run' = 2
  /\ killed' = FALSE
  /\ dpc' = [i \in DRec |-> "lg_check"]
  /\ fd' = [i \in DRec |-> 0]
  /\ off' = [i \in DRec |-> 0]
  /\ outcome' = [i \in DRec |-> NoOutcome]
  /\ how' = [i \in DRec |-> "-"]
  /\ requests' = [u \in Urls |-> 0]
  /\ LeftFiles
  /\ UNCHANGED << ret, collected, succeeded, failed, failed_downloads, opc, faults, snap,
                  url, mode, schedvars, helpervars >>

\* The first call of build_index's download loop, on a cache directory in which a
\* record's file is absent, empty or complete.
InitLegacy ==
  /\ cache = [i \in Rec |-> "missing"]
  /\ pc = "none"
  /\ validate_cache = TRUE
  /\ HelpersIdle
  /\ batch_size = 1
  /\ cpu_count = 1
  /\ SchedStart
  /\ url \in {f \in [DRec -> Urls] :
                \A i \in DRec : f[i] <= 1 + Cardinality({f[j] : j \in 0 .. (i - 1)})}
  /\ mode = "stream"
  /\ \E prior \in [Urls -> {"absent", "empty", "complete"}] :
       /\ \A u \in Urls : (\A i \in DRec : url[i] # u) => prior[u] = "absent"
       /\ target = [u \in Urls |-> IF prior[u] = "absent" THEN 0 ELSE PriorTarget(u)]
       /\ inode = [n \in Inodes |->
                     IF \E u \in Urls : n = PriorTarget(u) /\ prior[u] = "complete"
                       THEN Payload ELSE << >>]
       /\ snap = [u \in Urls |-> << prior[u] # "absent",
                                    IF prior[u] = "complete" THEN Payload ELSE << >> >>]
  /\ part = [u \in Urls |-> 0]
  /\ dpc = [i \in DRec |-> "lg_check"]
  /\ fd = [i \in DRec |-> 0]
  /\ off = [i \in DRec |-> 0]
  /\ ret = [i \in DRec |-> "-"]
  /\ outcome = [i \in DRec |-> NoOutcome]
  /\ how = [i \in DRec |-> "-"]
  /\ collected = [i \in DRec |-> 0]
  /\ succeeded = 0
  /\ failed = 0
  /\ failed_downloads = << >>
  /\ opc = "none"
  /\ requests = [u \in Urls |-> 0]
  /\ faults = 0
  /\ killed = FALSE
  /\ run = 1

NextLegacy ==
  \/ \E i \in DRec : LgCheck(i)
  \/ \E i \in DRec : LgGet(i)
  \/ \E i \in DRec : LgOpen(i)
  \/ \E i \in DRec : LgWrite(i)
  \/ Kill
  \/ LgRerun

SpecLegacy == InitLegacy /\ [][NextLegacy]_vars

\* ------------------------------------------------- the parallel cache check
\* Lines 129-153 task by task: ThreadPool(num_workers) takes the records in
\* order, its workers finish in any order, and pool.imap hands the results back.
num_workers == Min(cpu_count, 8)

CheckRunning == {i \in Rec : i < check_started /\ check_result[i] = NoResult}

\* A free worker takes the next record (the chunks of line 138 are taken as one
\* record each).
CheckStart ==
  /\ pc = "check"
  /\ check_started < NumRecords
  /\ Cardinality(CheckRunning) < num_workers
  /\ check_started' = check_started + 1
  /\ UNCHANGED << check_result, check_order, schedvars, dlvars, fetchvars, valvars, argvars,
                  queryvars, outvars >>

\* Lines 33-54: a worker returns its record's classification.
CheckFinish(i) ==
  /\ pc = "check"
  /\ i \in CheckRunning
  /\ check_result' = [check_result EXCEPT ![i] =
                        [file |-> IF validate_cache_worker(i) = "valid" THEN cache_file(i)
                                  ELSE None,
                         status |-> validate_cache_worker(i)]]
  /\ check_order' = Append(check_order, i)
  /\ UNCHANGED << check_started, schedvars, dlvars, fetchvars, valvars, argvars, queryvars,
                  outvars >>

\* pool.imap_unordered: the results as the workers finished.
imap_unordered == [k \in 1 .. Len(check_order) |-> check_result[check_order[k]]]

\* pool.imap (line 138): the results in the order of the arguments.
imap == [k \in 1 .. NumRecords |-> check_result[k - 1]]

\* Lines 137-153 and 174-175: once every worker has returned, the results are
\* walked through in order and paths gets one entry for each.
CheckCollect ==
  /\ pc = "check"
  /\ \A i \in Rec : check_result[i] # NoResult
  /\ LET results == imap
     IN /\ paths' = [i \in Rec |-> results[i + 1].file]
        /\ missing' = Cardinality({k \in 1 .. Len(results) : results[k].status = "missing"})
        /\ validation_failed' =
             Cardinality({k \in 1 .. Len(results) : results[k].status = "invalid"})
        /\ pc' = IF \A k \in 1 .. Len(results) : results[k].file = None
                   THEN "aborted" ELSE "refill"
  /\ missing_images' = error_infos("missing")
  /\ validation_failures_list' = error_infos("invalid")
  /\ UNCHANGED << cache, batch_size, cpu_count, path_iter, pending, task, result, done,
                  batch_idx, batch_imgs, vecs, good, pbar, embed_batches, kept, X, meta,
                  index, submitted, consumed, writes, writers, order >>
  /\ UNCHANGED << calls, validate_cache, out_dir, manifest, dlvars, helpervars >>

\* build_embeddings_from_cache has read its records and starts the cache check.
InitCheck ==
  /\ cache \in [Rec -> {"missing", "empty", "invalid", "image"}]
  /\ validate_cache \in BOOLEAN
  /\ HelpersIdle
  /\ pc = "check"
  /\ batch_size = 1
  /\ cpu_count \in 1 .. MaxCpu
  /\ SchedStart
  /\ DlIdle

NextCheck ==
  \/ CheckStart
  \/ \E i \in Rec : CheckFinish(i)
  \/ CheckCollect

SpecCheck == InitCheck /\ [][NextCheck]_vars

\* ------------------------------------------------- answers without a body
\* download_all_images against a server that answers some URLs with a successful
\* status and an empty body; no other failure is injected.
InitBody ==
  /\ DownloadStartAny
  /\ body \in [Urls -> {0, PayloadChunks}]
  /\ faults = MaxFaults

SpecBody == InitBody /\ [][NextDownload]_vars

\* ------------------------------------------------- download, then build
\* What the build step finds at the cache path of a URL the download step handled:
\* the server's payload is an image, anything else that has bytes is not.
KindOf(u) ==
  IF ~Exists(u) THEN "missing"
  ELSE IF Len(Data(u)) = 0 THEN "empty"
  ELSE IF Data(u) = Payload THEN "image"
  ELSE "invalid"

\* ------------------------------------------------- file names of the cache directory
\* A file name is the sequence of its dot-separated components.
\* build_mtg_faiss.py, lines 64-70: <sha1 of the URL>.jpg, or .png for a URL that
\* contains ".png" (here: the even URLs).
safe_filename(u) == << u, IF u % 2 = 0 THEN "png" ELSE "jpg" >>

\* atomic_io.py, lines 35 and 81: target_path.with_suffix(target_path.suffix + ".part").
temp_path(name) == Append(name, "part")

\* The names the cache directory holds.
Directory ==
  {safe_filename(u) : u \in {v \in Urls : target[v] # 0}}
    \cup {temp_path(safe_filename(u)) : u \in {v \in Urls : part[v] # 0}}

Content(name) == IF Len(name) = 2 THEN inode[target[name[1]]] ELSE inode[part[name[1]]]

\* validation.py, line 92.
extensions == {"jpg", "jpeg", "png", "gif", "webp"}

\* validation.py, line 93: cache_dir.glob("*." + ext) matches a whole name, so the
\* name has to end with the extension.
glob_anywhere(ext) == {n \in Directory : \E k \in 2 .. Len(n) : n[k] = ext}

glob(ext) == {n \in Directory : n[Len(n)] = ext}

\* validation.py, lines 81-106.
validate_cache_directory ==
  LET seen == UNION {glob(ext) : ext \in extensions}
      ok == {n \in seen : Content(n) = Payload}
  IN [total |-> Cardinality(seen), valid |-> Cardinality(ok),
      invalid |-> Cardinality(seen \ ok), failures |-> seen \ ok]

\* build_embeddings.py is started on the cache directory once download_images.py
\* has ended; the records the download step did not cover have whatever an
\* earlier run left. The download process is gone, and with it its counters and
\* descriptors; the files it left are numbered as the files a run starts with.
BuildStart ==
  /\ pc = "none"
  /\ opc \in {"summary", "aborted"}
  /\ \A i \in DRec : dpc[i] = "finished"
  /\ \E rest \in [Rec \ DRec -> CacheKinds] :
       cache' = [i \in Rec |-> IF i \in DRec THEN KindOf(url[i]) ELSE rest[i]]
  /\ pc' = "validate"
  /\ opc' = "ended"
  /\ outcome' = [i \in DRec |-> NoOutcome]
  /\ collected' = [i \in DRec |-> 0]
  /\ succeeded' = 0
  /\ failed' = 0
  /\ failed_downloads' = << >>
  /\ faults' = 0
  /\ ret' = [i \in DRec |-> "-"]
  /\ requests' = [u \in Urls |-> 0]
  /\ LeftFiles
  /\ UNCHANGED << batch_size, cpu_count, paths, path_iter, pending, task, result, done,
                  batch_idx, batch_imgs, vecs, good, pbar, embed_batches, kept, X, meta,
                  index, submitted, consumed, writes, writers, order, calls, buildvars,
                  url, mode, dpc, fd, off, how, killed, run, snap,
                  helpervars >>

NextPipeline ==
  \/ DownloadStep
  \/ BuildStart
  \/ Next

\* A download run in which at most one step meets an environment failure, and
\* the build run that follows it.
InitPipeline ==
  /\ DownloadStart
  /\ faults = MaxFaults - 1

SpecPipeline == InitPipeline /\ [][NextPipeline]_vars

\* ------------------------------------------------- helpers/cli_validation.py
\* hasattr(args, f) and args.f is not None.
Given(a, f) == a[f].k = "int"

\* Lines 57-65: the range of efConstruction and, inside the same branch, the
\* comparison with M when M is given.
ef_errors_range_only(a) ==
  IF Given(a, "hnsw_ef_construction")
    THEN IF a["hnsw_ef_construction"].v < 1 \/ a["hnsw_ef_construction"].v > 2000
           THEN {"--hnsw-ef-construction must be between 1 and 2000"} ELSE {}
    ELSE {}

ef_errors(a) ==
  IF Given(a, "hnsw_ef_construction")
    THEN (IF a["hnsw_ef_construction"].v < 1 \/ a["hnsw_ef_construction"].v > 2000
            THEN {"--hnsw-ef-construction must be between 1 and 2000"} ELSE {})
         \cup (IF Given(a, "hnsw_m") /\ a["hnsw_ef_construction"].v < a["hnsw_m"].v
                 THEN {"--hnsw-ef-construction must be >= --hnsw-m"} ELSE {})
    ELSE {}

\* Lines 67-72: negative, or positive and below 100.
checkpoint_errors(a) ==
  IF Given(a, "checkpoint_frequency")
    THEN IF a["checkpoint_frequency"].v < 0
           THEN {"--checkpoint-frequency must be >= 0 (0 disables checkpointing)"}
         ELSE IF a["checkpoint_frequency"].v > 0 /\ a["checkpoint_frequency"].v < 100
           THEN {"--checkpoint-frequency must be >= 100 or 0 to disable"}
         ELSE {}
    ELSE {}

\* Lines 30-86: the list errors.
validate_args(a) ==
  (IF Given(a, "limit") /\ a["limit"].v < 0 THEN {"--limit must be >= 0"} ELSE {})
  \cup (IF Given(a, "batch") /\ a["batch"].v < 1 THEN {"--batch must be >= 1"} ELSE {})
  \cup (IF Given(a, "size") /\ a["size"].v < 64 THEN {"--size must be >= 64"} ELSE {})
  \cup (IF Given(a, "workers") /\ (a["workers"].v < 1 \/ a["workers"].v > 128)
          THEN {"--workers must be between 1 and 128"} ELSE {})
  \cup (IF Given(a, "hnsw_m") /\ (a["hnsw_m"].v < 4 \/ a["hnsw_m"].v > 128)
          THEN {"--hnsw-m must be between 4 and 128"} ELSE {})
  \cup ef_errors(a)
  \cup checkpoint_errors(a)
  \cup (IF Given(a, "timeout_connect") /\ a["timeout_connect"].v < 1
          THEN {"--timeout-connect must be >= 1 second"} ELSE {})
  \cup (IF Given(a, "timeout_read") /\ a["timeout_read"].v < 5
          THEN {"--timeout-read must be >= 5 seconds"} ELSE {})
  \cup (IF Given(a, "max_retries") /\ a["max_retries"].v < 0
          THEN {"--max-retries must be >= 0"} ELSE {})

\* The attributes each parser defines, with their defaults: download_images.py,
\* lines 171-180, build_embeddings.py, lines 343-356; "call" is a direct call of
\* validate_args with a namespace that has every attribute.
Entries == {"download_images", "build_embeddings", "call"}

Defaults(e) ==
  CASE e = "download_images" ->
         [f \in Fields |->
            CASE f = "limit" -> PyNone
              [] f = "workers" -> PyInt(16)
              [] f = "timeout_connect" -> PyInt(5)
              [] f = "timeout_read" -> PyInt(30)
              [] f = "max_retries" -> PyInt(5)
              [] OTHER -> NoAttr]
    [] e = "build_embeddings" ->
         [f \in Fields |->
            CASE f = "limit" -> PyNone
              [] f = "batch" -> PyInt(256)
              [] f = "size" -> PyInt(336)
              [] f = "hnsw_m" -> PyInt(32)
              [] f = "hnsw_ef_construction" -> PyInt(200)
              [] OTHER -> NoAttr]
    [] OTHER ->
         [f \in Fields |->
            CASE f = "limit" -> PyNone
              [] f = "batch" -> PyInt(256)
              [] f = "size" -> PyInt(336)
              [] f = "workers" -> PyInt(16)
              [] f = "hnsw_m" -> PyInt(32)
              [] f = "hnsw_ef_construction" -> PyInt(200)
              [] f = "checkpoint_frequency" -> PyInt(0)
              [] f = "timeout_connect" -> PyInt(5)
              [] f = "timeout_read" -> PyInt(30)
              [] OTHER -> PyInt(5)]

\* The values tried for an attribute: None and the integers on both sides of every
\* threshold the attribute is compared with.
Tried(f) ==
  {PyNone} \cup
  {PyInt(n) : n \in
     CASE f = "limit" -> {-1, 0, 2, 5}
       [] f = "batch" -> {0, 1}
       [] f = "size" -> {63, 64}
       [] f = "workers" -> {0, 1, 128, 129}
       [] f = "hnsw_m" -> {3, 4, 128, 129}
       [] f = "hnsw_ef_construction" -> {0, 1, 3, 4, 31, 32, 127, 128, 2000, 2001}
       [] f = "checkpoint_frequency" -> {-1, 0, 1, 99, 100}
       [] f = "timeout_connect" -> {0, 1}
       [] f = "timeout_read" -> {4, 5}
       [] OTHER -> {-1, 0}}

\* parse_args() has returned: the namespace of the entry's parser, in which at most
\* MaxGiven options were given on the command line.
InitArgs ==
  /\ cache = [i \in Rec |-> "missing"]
  /\ pc = "none"
  /\ batch_size = 1
  /\ cpu_count = 1
  /\ validate_cache = TRUE
  /\ SchedStart
  /\ DlIdle
  /\ FetchIdle
  /\ ValIdle
  /\ QueryIdle
  /\ CheckIdle
  /\ OutIdle
  /\ entry \in Entries
  /\ \E S \in SUBSET {f \in Fields : Defaults(entry)[f] # NoAttr} :
       /\ Cardinality(S) <= MaxGiven
       /\ \E given \in [S -> UNION {Tried(f) : f \in S}] :
            /\ \A f \in S : given[f] \in Tried(f)
            /\ args = [f \in Fields |-> IF f \in S THEN given[f] ELSE Defaults(entry)[f]]
  /\ apc = "parsed"
  /\ stderr = {}
  /\ exit_code = -1
  /\ faces = << >>

ArgsRest == << entry, args, schedvars, dlvars, fetchvars, valvars, queryvars, checkvars, outvars >>

\* download_images.py, line 184, build_embeddings.py, line 362, and lines 88-94 of
\* validate_args: print the errors and sys.exit(1), or return.
ValidateArgs ==
  /\ apc = "parsed"
  /\ IF validate_args(args) # {}
       THEN /\ stderr' = validate_args(args)
            /\ exit_code' = 1
            /\ apc' = "exit"
       ELSE /\ apc' = "validated"
            /\ UNCHANGED << stderr, exit_code >>
  /\ UNCHANGED << faces, ArgsRest >>

\* The catalog's faces in catalog order, as lines 80-97 of download_images.py and
\* lines 93-110 of build_embeddings.py collect them.
catalog == [k \in 1 .. NumRecords |-> k - 1]

\* Python's truth value of limit: None and 0 are false.
truthy(x) == x.k = "int" /\ x.v # 0

\* records[:n]
slice_to(seq, n) ==
  SubSeq(seq, 1, IF n >= 0 THEN Min(n, Len(seq)) ELSE Max(Len(seq) + n, 0))

\* download_images.py, lines 99-100, build_embeddings.py, lines 112-113.
apply_limit(seq, limit) == IF truthy(limit) THEN slice_to(seq, limit.v) ELSE seq

\* download_images.py, lines 186-189, build_embeddings.py, lines 364-368: the work
\* begins with limit=args.limit and cuts the record list.
StartWork ==
  /\ apc = "validated"
  /\ apc' = "working"
  /\ faces' = apply_limit(catalog, args["limit"])
  /\ UNCHANGED << stderr, exit_code, ArgsRest >>

NextArgs ==
  \/ ValidateArgs
  \/ StartWork

SpecArgs == InitArgs /\ [][NextArgs]_vars

\* ------------------------------------------------------------------ claims
Filled == {i \in Rec : good[i]}

\* The vector the embedding model computes from record i's own cached image.
OwnVector(i) == Embed(Image(i))

\* C1: after the build finishes the index identifiers are exactly 0..M-1, M the
\* number of flagged positions, and identifier i and metadata line i come from
\* the same source record records[kept[i]].
C1_IndexMetaAligned ==
  pc = "done" =>
    /\ DOMAIN index = 0 .. (Cardinality(Filled) - 1)
    /\ Len(meta) = Cardinality(Filled)
    /\ Len(kept) = Cardinality(Filled)
    /\ \A id \in DOMAIN index :
         /\ meta[id + 1] = records(kept[id + 1])
         /\ index[id] = OwnVector(meta[id + 1].face_id)

C1_Witness ==
  /\ pc = "done"
  /\ Cardinality(Filled) >= 2
  /\ \E i \in Rec : ~good[i] /\ \E j \in Rec : j > i /\ good[j]

\* C2: at compaction good[i] holds exactly for the records classified valid whose
\* image decoded and whose vector was written to vecs[i]; a missing, invalid or
\* undecodable record is unflagged and puts no row (no zero vector) in the index.
C2_GoodIffEmbedded ==
  pc \in {"compact", "done"} =>
    /\ \A i \in Rec :
         good[i] <=> /\ validate_cache_worker(i) = "valid"
                     /\ load_image_rgb(cache_file(i)) # None
                     /\ writes[i] >= 1
                     /\ vecs[i] = OwnVector(i)
    /\ \A i \in Rec : cache[i] # "image" => ~good[i] /\ vecs[i] = Zero
    /\ pc = "done" =>
         /\ \A r \in 1 .. Len(kept) : cache[kept[r]] = "image"
         /\ \A id \in DOMAIN index : index[id] # Zero /\ index[id] # NaN

C2_Witness ==
  /\ pc = "done"
  /\ \E i, j, k \in Rec :
       /\ cache[i] = "undecodable" /\ ~good[i]
       /\ cache[j] \in {"missing", "invalid"} /\ ~good[j]
       /\ cache[k] = "image" /\ good[k]

\* C3: whatever order the decode tasks complete in, the final vecs and good arrays
\* equal those of strictly sequential load-then-embed processing in record order.
C3_OrderIndependent ==
  pc \in {"compact", "done"} => vecs = Sequential.vecs /\ good = Sequential.good

C3_Witness ==
  /\ pc = "done"
  /\ \E a, b \in 1 .. Len(order) : a < b /\ order[a] > order[b] /\ good[order[a]]
  /\ \E i \in Rec : cache[i] = "undecodable"

\* C4: every position with a non-null path is submitted once and consumed once,
\* a slot is written at most once, with the vector of its own record's image, and
\* never by two threads.
C4_ExactlyOnce ==
  /\ \A i \in Rec :
       /\ submitted[i] <= 1
       /\ consumed[i] <= submitted[i]
       /\ paths[i] = None => submitted[i] = 0
       /\ writes[i] <= 1
       /\ writes[i] >= 1 => vecs[i] = OwnVector(i)
       /\ Cardinality(writers[i]) <= 1
  /\ pc \in {"flush", "compact", "done"} =>
       \A i \in Rec : paths[i] # None => submitted[i] = 1 /\ consumed[i] = 1

C4_Witness ==
  /\ pc = "done"
  /\ Cardinality({i \in Rec : writes[i] = 1}) >= 2
  /\ \E i \in Rec : paths[i] = None
  /\ \E a, b \in 1 .. Len(order) : a < b /\ order[a] > order[b]

Complete == << TRUE, Payload >>

\* C5: whenever the process is killed during atomic_write or atomic_write_stream,
\* the target path is unchanged (absent or its previous content) or holds the
\* complete payload, never a partial one; only the .part sibling may be partial.
C5_TargetNeverPartial ==
  \A u \in Urls : FileState(u) = snap[u] \/ FileState(u) = Complete

C5_Witness ==
  /\ killed
  /\ dpc[0] = "write"
  /\ off[0] >= 1
  /\ snap[1] = << TRUE, OldData >>
  /\ FileState(1) = snap[1]
  /\ part[1] # 0 /\ inode[part[1]] # Payload /\ inode[part[1]] # << >>

\* C6 (as claimed): when two workers fetch and write the same URL, under every
\* interleaving both writes succeed, the target never holds partial content and
\* holds the complete payload once both have finished; writers of different URLs
\* do not affect each other.
C6_SameUrlWritersSafe ==
  (faults = 0 /\ run = 1) =>
    /\ \A i \in DRec : ret[i] \in {"-", "True"}
    /\ \A u \in Urls : FileState(u) = snap[u] \/ FileState(u) = Complete
       \/ FileState(u) = << FALSE, << >> >>
    /\ \A i \in DRec : ret[i] = "True" /\ (\A j \in DRec : dpc[j] = "finished")
                         => FileState(url[i]) = Complete

\* C7 (as claimed): whenever atomic_write or atomic_write_stream fails, for any
\* reason, then on return the .part file does not exist, the call has returned
\* False and the target is unchanged.
C7_FailureCleansUp ==
  \A i \in DRec :
    (dpc[i] = "returned" /\ ret[i] # "True") =>
      /\ ret[i] = "False"
      /\ part[url[i]] = 0
      /\ FileState(url[i]) = snap[url[i]]

\* C8 (as claimed): a failure while handling one record, a filesystem error of the
\* cache-existence check or of the zero-byte cleanup included, is a failed outcome
\* of that record only; the run never aborts and every outcome is collected.
C8_NeverAborts ==
  /\ opc # "aborted"
  /\ \A i \in DRec : outcome[i].kind # "raised"
  /\ \A i \in DRec : collected[i] <= 1
  /\ opc = "summary" => \A i \in DRec : collected[i] = 1

\* The class the orchestrator files an outcome under (lines 134-143).
Class(i) == IF is_failed(outcome[i]) THEN "failed" ELSE "succeeded"

\* C9 (as claimed): when download_all_images finishes every record has exactly one
\* of the outcomes cached, downloaded, failed; the aggregated result distinguishes
\* the three classes and the counts sum to the number of records.
C9_ThreeClasses ==
  opc = "summary" =>
    /\ \A i \in DRec : collected[i] = 1 /\ how[i] \in {"cached", "downloaded", "failed"}
    /\ succeeded + failed = NumDl
    /\ \A i, j \in DRec : how[i] # how[j] => Class(i) # Class(j)

\* C9 (amended): when download_all_images finishes, every record has been counted
\* exactly once, as succeeded (a cache hit or a fresh download, which the result
\* does not tell apart) or as failed with its reason, and succeeded + failed is
\* the number of records.
C9_TwoClasses ==
  opc = "summary" =>
    /\ \A i \in DRec : collected[i] = 1 /\ how[i] \in {"cached", "downloaded", "failed"}
    /\ succeeded = Cardinality({i \in DRec : how[i] \in {"cached", "downloaded"}})
    /\ failed = Cardinality({i \in DRec : how[i] = "failed"})
    /\ Len(failed_downloads) = failed
    /\ \A k \in 1 .. Len(failed_downloads) :
         /\ how[failed_downloads[k].rec] = "failed"
         /\ failed_downloads[k].error # "-"
    /\ succeeded + failed = NumDl

C9_Witness ==
  /\ opc = "summary"
  /\ \E i, j \in DRec : how[i] = "cached" /\ how[j] = "downloaded"

\* C10: a second run on the same records and cache directory issues no request
\* for a record whose cache file exists and is non-empty, and leaves that file as
\* it was.
C10_SecondRunIdempotent ==
  run = 2 =>
    \A u \in Urls :
      (snap[u][1] /\ Len(snap[u][2]) > 0) => requests[u] = 0 /\ FileState(u) = snap[u]

C10_Witness ==
  /\ run = 2
  /\ opc = "summary"
  /\ \E u \in Urls :
       /\ snap[u][1] /\ Len(snap[u][2]) > 0
       /\ target[u] = FetchedTarget(u)
       /\ \E i \in DRec : url[i] = u /\ how[i] = "cached"
  /\ \E i \in DRec : how[i] = "downloaded"

\* ------------------------------------------------- scheduler: admission and window
\* A record that refill_pending would still submit.
Admissible == \E i \in Rec : i >= path_iter /\ paths[i] # None

\* Line 208: some step submits a decode task.
Admit == Next /\ submitted' # submitted

\* C11 (as claimed): while the embed call of a full batch is in progress and the
\* window has room for a record not yet submitted, the scheduler can submit it;
\* admission never waits for the embed call to return.
C11_AdmitsDuringEmbed ==
  (pc = "embed" /\ Admissible /\ Cardinality(pending) < prefetch_limit) => ENABLED Admit

\* C12 (as claimed): at every state the decode tasks submitted and not yet
\* consumed number at most load_workers.
C12_InFlightAtMostWorkers == Cardinality(pending) <= load_workers

\* C12 (amended): at every state the decode tasks submitted and not yet consumed
\* number at most max(load_workers, min(valid_count, batch_size * 2)), and at most
\* load_workers of them are executing.
C12_InFlightBounded ==
  pc \notin {"validate", "aborted"} =>
    /\ Cardinality(pending) <= Max(Max(1, Min(4, cpu_count)),
                                   Min(Cardinality({i \in Rec : paths[i] # None}), batch_size * 2))
    /\ Cardinality({f \in Rec : task[f] = "running"}) <= Max(1, Min(4, cpu_count))
    /\ pending = {f \in Rec : task[f] \in {"queued", "running", "done"}}

C12_Witness ==
  /\ Cardinality(pending) > load_workers
  /\ Cardinality({f \in Rec : task[f] = "running"}) = load_workers
  /\ \E f \in pending : task[f] = "queued"

\* The decode pool has shut down and the scheduler's loop has consumed every task
\* (the end of the with block of line 194), and nothing is left in a batch to embed.
Settled ==
  /\ pending = {}
  /\ done = {}
  /\ \A f \in Rec : task[f] \in {"none", "consumed"}
  /\ path_iter = NumRecords

\* A step taken once the scheduler has handed over to the assembler leaves the
\* accumulator as it is.
AccumulatorFrozen ==
  pc \in {"compact", "done"} => (vecs' = vecs /\ good' = good /\ writes' = writes)

\* C13: compaction and index construction start only after the decode pool has
\* shut down and every embed call, the final flush included, has written its rows;
\* from then on no step writes the accumulator.
C13_AssemblerAfterBarrier ==
  /\ [](pc \in {"compact", "done"} =>
          /\ Settled
          /\ \A i \in Rec : good[i] <=> (consumed[i] = 1 /\ result[i][2] # None))
  /\ [][AccumulatorFrozen]_vars

C13_Witness ==
  /\ pc = "done"
  /\ embed_batches >= 1
  /\ Len(kept) > embed_batches * batch_size
  /\ index # << >>

\* The number of embed calls record i's image was passed to.
Passed(i) ==
  Cardinality({c \in (1 .. Len(calls)) \X (1 .. MaxBatch + 1) :
                 c[2] <= Len(calls[c[1]].idx) /\ calls[c[1]].idx[c[2]] = i})

\* The records whose cached file decodes to an image.
Decodable == {i \in Rec : cache[i] = "image"}

FlushCalls == {k \in 1 .. Len(calls) : calls[k].line = 239}

\* C14: once every record is scheduled and every decode task consumed, a non-empty
\* trailing batch is embedded exactly once (and an empty one never); over the run
\* each decoded image is passed to exactly one embed call, and no image to two.
C14_FlushOnceEachImageOnce ==
  /\ \A i \in Rec : Passed(i) <= 1
  /\ pc \notin {"compact", "done"} => FlushCalls = {}
  /\ pc \in {"compact", "done"} =>
       /\ \A i \in Rec : Passed(i) = IF i \in Decodable THEN 1 ELSE 0
       /\ Cardinality(FlushCalls) =
            IF Cardinality(Decodable) % batch_size = 0 THEN 0 ELSE 1
       /\ \A k \in FlushCalls :
            k = Len(calls) /\ Len(calls[k].idx) = Cardinality(Decodable) % batch_size
       /\ \A k \in 1 .. Len(calls) : k \notin FlushCalls => Len(calls[k].idx) = batch_size

C14_Witness ==
  /\ pc = "done"
  /\ FlushCalls # {}
  /\ \E k \in 1 .. Len(calls) : calls[k].line = 224

\* ------------------------------------------------- helpers/session.py
\* One download_single_image call for a URL that is not cached, followed request
\* by request through the Retry policy the session mounts.
Status(c) == [kind |-> "status", code |-> c]
ConnectionReset == [kind |-> "error", code |-> 1]
Timeout == [kind |-> "error", code |-> 2]

\* Line 49.
status_forcelist_with_404 == {404, 429, 500, 502, 503, 504}

status_forcelist == {429, 500, 502, 503, 504}

\* Line 50; download_single_image issues a GET.
allowed_methods == {"GET", "HEAD"}

Answers == {Status(c) : c \in {200, 404, 429, 500, 502, 503, 504}} \cup {ConnectionReset, Timeout}

\* What the server answers to the n-th request of the fetch.
Answer(n) == IF heal > 0 /\ n >= heal THEN Status(200) ELSE server

\* The Retry policy's test: a connection error or timeout, or a status of the
\* forcelist on an allowed method.
is_retry(r) ==
  \/ r.kind = "error"
  \/ r.kind = "status" /\ r.code \in status_forcelist /\ "GET" \in allowed_methods

FetchRest == << max_retries, server, heal, retry_after, body >>

\* Line 27: the default of backoff_factor, which line 47 hands to Retry.
backoff_factor == 1

\* Retry is built without backoff_max (lines 45-51), so its own default applies.
BACKOFF_MAX == 120

\* Retry.get_backoff_time after k consecutive failed requests: nothing before
\* the first retry, then backoff_factor * 2^(k-1), at most BACKOFF_MAX.
get_backoff_time(k) ==
  IF k <= 1 THEN 0 ELSE Min(BACKOFF_MAX, backoff_factor * 2 ^ (k - 1))

\* Retry.sleep with respect_retry_after_header=True (line 51): the Retry-After of
\* the answer if it has one, the backoff otherwise; an error has no answer.
sleep(r, k) ==
  IF r.kind = "status" /\ retry_after > 0 THEN retry_after ELSE get_backoff_time(k)

\* Lines 51-52 and 60-61: session.get sends a request; a retryable answer with
\* retries left leads to a backoff, one without retries left raises out of
\* session.get, an error status outside the forcelist raises in raise_for_status,
\* and both exceptions are returned as the record's error.
FetchRequest ==
  /\ fpc = "request"
  /\ attempts' = attempts + 1
  /\ LET r == Answer(attempts + 1)
     IN IF is_retry(r)
          THEN IF retries_left > 0
                 THEN /\ retries_left' = retries_left - 1
                      /\ fpc' = "backoff"
                      /\ slept' = sleep(r, attempts + 1)
                      /\ UNCHANGED fresult
                 ELSE /\ fresult' = [kind |-> "None", error |-> "Max retries exceeded"]
                      /\ fpc' = "returned"
                      /\ UNCHANGED << retries_left, slept >>
          ELSE IF r.code >= 400
                 THEN /\ fresult' = [kind |-> "None", error |-> "HTTPError"]
                      /\ fpc' = "returned"
                      /\ UNCHANGED << retries_left, slept >>
                 ELSE /\ fpc' = "got"
                      /\ UNCHANGED << fresult, retries_left, slept >>
  /\ UNCHANGED << FetchRest, schedvars, dlvars, valvars, argvars, queryvars, checkvars, outvars >>

\* The sleep between two requests is over.
FetchBackoff ==
  /\ fpc = "backoff"
  /\ fpc' = "request"
  /\ UNCHANGED << FetchRest, attempts, retries_left, fresult, slept, schedvars, dlvars,
                  valvars, argvars, queryvars, checkvars, outvars >>

\* Lines 55-58: the body is written through atomic_write_stream, which returns
\* True or False.
FetchWritten ==
  /\ fpc = "got"
  /\ \E ok \in BOOLEAN :
       fresult' = IF ok THEN [kind |-> "path", error |-> "-"]
                  ELSE [kind |-> "None", error |-> "Failed to write file"]
  /\ fpc' = "returned"
  /\ UNCHANGED << FetchRest, attempts, retries_left, slept, schedvars, dlvars, valvars,
                  argvars, queryvars, checkvars, outvars >>

\* A DownloadSession built with max_retries, and a server with a fixed behaviour.
InitFetch ==
  /\ cache = [i \in Rec |-> "missing"]
  /\ pc = "none"
  /\ batch_size = 1
  /\ cpu_count = 1
  /\ validate_cache = TRUE
  /\ SchedStart
  /\ DlIdle
  /\ max_retries \in 0 .. MaxRetries
  /\ server \in Answers
  /\ heal \in 0 .. (MaxRetries + 2)
  /\ fpc = "request"
  /\ attempts = 0
  /\ retries_left = max_retries
  /\ fresult = NoOutcome
  /\ retry_after \in {0, 3}
  /\ slept = 0
  /\ body = FullBody
  /\ ValIdle
  /\ ArgsIdle
  /\ QueryIdle
  /\ CheckIdle
  /\ OutIdle

NextFetch ==
  \/ FetchRequest
  \/ FetchBackoff
  \/ FetchWritten

SpecFetch == InitFetch /\ [][NextFetch]_vars

\* C15: a fetch of a URL that always answers with a transient condition makes
\* max_retries retries (max_retries + 1 requests) and then returns a failure; a
\* fetch answered by HTTP 404 makes exactly one request and returns a failure; no
\* fetch makes more than max_retries retries.
C15_RetriesBounded ==
  /\ attempts <= max_retries + 1
  /\ fpc = "returned" =>
       /\ (heal = 0 /\ (server.kind = "error" \/ server.code \in {429, 500, 502, 503, 504}))
            => attempts = max_retries + 1 /\ fresult.kind = "None"
       /\ (server = Status(404) /\ heal # 1)
            => attempts = 1 /\ fresult.kind = "None"

C15_Witness ==
  /\ fpc = "returned"
  /\ heal = 0
  /\ server = Status(503)
  /\ max_retries = MaxRetries
  /\ attempts = MaxRetries + 1
  /\ fresult.kind = "None"

\* The URLs whose cache file was a zero-byte file when the download step began.
ZeroByteAtStart == {u \in Urls : snap[u] = << TRUE, << >> >>}

\* C16: a zero-byte file at a record's cache path counts as absent in both steps:
\* the download step never reports it as a cache hit, removes it before any request
\* for its URL and re-fetches the URL; the build step classifies the record as
\* missing and never submits, decodes or embeds it.
C16_ZeroByteIsAbsent ==
  /\ \A i \in DRec :
       (url[i] \in ZeroByteAtStart /\ opc # "ended") =>
         /\ how[i] = "cached" =>
              requests[url[i]] >= 1 /\ \E j \in DRec : url[j] = url[i] /\ ret[j] = "True"
         /\ requests[url[i]] >= 1 => target[url[i]] # PriorTarget(url[i])
         /\ (\A j \in DRec : dpc[j] = "finished") =>
              requests[url[i]] >= 1 /\ target[url[i]] # PriorTarget(url[i])
  /\ \A i \in Rec :
       (cache[i] = "empty" /\ pc \notin {"none", "validate"}) =>
         /\ paths[i] = None
         /\ submitted[i] = 0 /\ task[i] = "none"
         /\ ~good[i] /\ Passed(i) = 0
         /\ \A k \in 1 .. Len(kept) : kept[k] # i

C16_Witness ==
  /\ pc = "done"
  /\ \E i \in DRec : url[i] \in ZeroByteAtStart /\ how[i] = "downloaded" /\ good[i]
  /\ \E i \in Rec : cache[i] = "empty" /\ ~good[i] /\ \E k \in 1 .. Len(kept) : kept[k] < i

\* ------------------------------------------------- helpers/validation.py
\* What a decoding pass (Image.open followed by verify, or by load) does with a
\* file: it succeeds or raises.
PassOutcomes == {"ok", "UnidentifiedImageError", "OSError", "SyntaxError", "Exception"}

\* Lines 53-62 without the final clause.
except_clauses_narrow(e) ==
  CASE e = "UnidentifiedImageError" ->
         [valid |-> FALSE, reason |-> "Not a valid image format (may be HTML error page)"]
    [] e \in {"OSError", "SyntaxError"} ->
         [valid |-> FALSE, reason |-> "Corrupted or truncated file"]
    [] OTHER -> [valid |-> FALSE, reason |-> "raised"]

\* Lines 53-62: the three except clauses.
except_clauses(e) ==
  CASE e = "UnidentifiedImageError" ->
         [valid |-> FALSE, reason |-> "Not a valid image format (may be HTML error page)"]
    [] e \in {"OSError", "SyntaxError"} ->
         [valid |-> FALSE, reason |-> "Corrupted or truncated file"]
    [] OTHER -> [valid |-> FALSE, reason |-> "Validation error"]

ValRest == << vfile, schedvars, dlvars, fetchvars, argvars, queryvars, checkvars, outvars >>

\* Lines 35-39: a missing or empty file is rejected before any open.
ValCheck ==
  /\ vpc = "start"
  /\ IF ~vfile.exists
       THEN vresult' = [valid |-> FALSE, reason |-> "File does not exist"] /\ vpc' = "returned"
     ELSE IF vfile.size = 0
       THEN vresult' = [valid |-> FALSE, reason |-> "File is empty (0 bytes)"] /\ vpc' = "returned"
     ELSE vpc' = "verify" /\ UNCHANGED vresult
  /\ UNCHANGED << vopens, ValRest >>

\* Lines 43-44: first pass, Image.open and img.verify().
ValVerify ==
  /\ vpc = "verify"
  /\ vopens' = vopens + 1
  /\ IF vfile.verify = "ok"
       THEN vpc' = "load" /\ UNCHANGED vresult
       ELSE vresult' = except_clauses(vfile.verify) /\ vpc' = "returned"
  /\ UNCHANGED ValRest

\* Lines 47-51: second pass, Image.open and img.load(), then return True, None.
ValLoad ==
  /\ vpc = "load"
  /\ vopens' = vopens + 1
  /\ vresult' = IF vfile.load = "ok" THEN [valid |-> TRUE, reason |-> "None"]
                ELSE except_clauses(vfile.load)
  /\ vpc' = "returned"
  /\ UNCHANGED ValRest

\* validate_image(path) for any file at path.
InitValidate ==
  /\ cache = [i \in Rec |-> "missing"]
  /\ pc = "none"
  /\ batch_size = 1
  /\ cpu_count = 1
  /\ validate_cache = TRUE
  /\ SchedStart
  /\ DlIdle
  /\ FetchIdle
  /\ ArgsIdle
  /\ QueryIdle
  /\ CheckIdle
  /\ OutIdle
  /\ vfile \in [exists : BOOLEAN, size : {0, 1}, verify : PassOutcomes, load : PassOutcomes]
  /\ vpc = "start"
  /\ vopens = 0
  /\ vresult = [valid |-> FALSE, reason |-> "-"]

NextValidate ==
  \/ ValCheck
  \/ ValVerify
  \/ ValLoad

SpecValidate == InitValidate /\ [][NextValidate]_vars

\* C17: validate_image returns (True, None) exactly when the file exists, is not
\* empty and passes both the verify pass and the load pass; otherwise it returns
\* (False, reason) with a reason, it never raises, and it opens nothing when the
\* file is missing or empty.
C17_ValidIffBothPasses ==
  /\ (~vfile.exists \/ vfile.size = 0) => vopens = 0
  /\ vpc = "returned" =>
       /\ vresult.valid <=> (vfile.exists /\ vfile.size > 0 /\ vfile.verify = "ok"
                             /\ vfile.load = "ok")
       /\ vresult.valid => vresult.reason = "None"
       /\ ~vresult.valid => vresult.reason \notin {"None", "-", "raised"}

C17_Witness ==
  /\ vpc = "returned"
  /\ vfile.exists /\ vfile.size > 0
  /\ vfile.verify = "ok" /\ vfile.load = "Exception"
  /\ ~vresult.valid
  /\ vopens = 2

\* The records of each class, from the cache directory itself.
MissingRecords == {i \in Rec : cache[i] \in {"missing", "empty"}}
InvalidRecords == {i \in Rec : cache[i] = "invalid"}
DecodeFailures == {i \in Rec : cache[i] = "undecodable"}

\* C18 (as claimed): whatever validate_cache is, a written manifest reports the
\* number of records classified missing, the number excluded as invalid, the index
\* size M, and total_records is the sum of these and of the decode failures.
C18_ManifestCounts ==
  manifest # None =>
    /\ manifest.missing_from_cache = Cardinality(MissingRecords)
    /\ manifest.validation_failures = Cardinality(InvalidRecords)
    /\ manifest.successfully_embedded = Cardinality(DOMAIN index)
    /\ manifest.total_records =
         manifest.missing_from_cache + manifest.validation_failures
           + manifest.successfully_embedded + Cardinality(DecodeFailures)

\* C19 (as claimed): a run in which no record ends up embedded aborts before
\* anything is written to out_dir; no index of zero vectors is ever persisted.
C19_NoEmptyIndexPersisted ==
  /\ out_dir # << >> => \E i \in Rec : good[i]
  /\ \A k \in 1 .. Len(out_dir) : out_dir[k].rows > 0
  /\ (pc = "done" /\ \A i \in Rec : ~good[i]) => FALSE

\* The records whose cached file passes validation and then fails to load.
LoadFailures == {i \in Rec : cache[i] \in {"undecodable", "raising"}}

\* C20 (as claimed): a failure to decode one record's image, whatever is raised
\* inside the decode task, never aborts the run or the batch: its position is left
\* out of the batch, its flag stays False, and every other decoded image is
\* embedded and written to its own slot.
C20_DecodeFailureIsLocal ==
  /\ pc # "crashed"
  /\ \A i \in LoadFailures : ~good[i] /\ Passed(i) = 0
  /\ pc = "done" =>
       \A i \in Rec : cache[i] = "image" => good[i] /\ vecs[i] = Embed(Image(i))
\* ------------------------------------------------- failure lists
\* C21 (as claimed): the failure lists kept in memory (failed_downloads,
\* missing_images, validation_failures) never hold more than MaxKept entries,
\* however many records fail.
C21_FailureListsBounded ==
  /\ Len(failed_downloads) <= MaxKept
  /\ Len(missing_images) <= MaxKept
  /\ Len(validation_failures_list) <= MaxKept
\* A step taken after the interrupt starts no task that had not started.
NoStartAfterInterrupt ==
  opc = "interrupted" => \A i \in DRec : dpc[i] = "queued" => dpc'[i] = "queued"

\* C22 (as claimed): once a run-level interrupt has reached download_all_images no
\* download that has not started is started; the downloads in flight run to their
\* end and (for records of distinct URLs) leave no partial file at a target path.
C22_InterruptStopsAdmission ==
  /\ [][NoStartAfterInterrupt]_vars
  /\ []((opc \in {"interrupted", "aborted"} /\ \A i, j \in DRec : i # j => url[i] # url[j]) =>
          \A u \in Urls : \/ FileState(u) = snap[u]
                           \/ FileState(u) = Complete
                           \/ FileState(u) = << FALSE, << >> >>)
\* ------------------------------------------------- the embedding model
\* The threads inside Embedder.encode_images: the main thread between the call of
\* line 224 and its return, and every pool thread whose task calls the embedder.
InsideEncode ==
  (IF pc = "embed" THEN 1 ELSE 0)
    + Cardinality({f \in Rec : task[f] = "running" /\ "encode_images" \in worker_calls})

C24_PartNeverInput ==
  /\ \A i \in DRec :
       (how[i] = "cached" /\ opc # "ended") =>
         \/ snap[url[i]][1] /\ Len(snap[url[i]][2]) > 0
         \/ \E j \in DRec : url[j] = url[i] /\ ret[j] = "True"
  /\ \A i \in DRec :
       (pc \notin {"none", "validate"} /\ target[url[i]] = 0) =>
         /\ paths[i] = None
         /\ submitted[i] = 0
         /\ ~good[i] /\ Passed(i) = 0
  /\ validate_cache_directory.total = Cardinality({u \in Urls : target[u] # 0})
  /\ \A n \in validate_cache_directory.failures : Len(n) = 2

C24_Witness ==
  /\ pc = "done"
  /\ \E i \in DRec :
       /\ target[url[i]] = 0
       /\ part[url[i]] # 0 /\ inode[part[url[i]]] # << >>
       /\ ~good[i]
  /\ \E i \in DRec : good[i]
  /\ validate_cache_directory.total = 1
\* ------------------------------------------------- argument validation
\* The constraints on the attributes that are given (present and not None).
Constraint(a, f) ==
  CASE f = "limit" -> a[f].v >= 0
    [] f = "batch" -> a[f].v >= 1
    [] f = "size" -> a[f].v >= 64
    [] f = "workers" -> 1 <= a[f].v /\ a[f].v <= 128
    [] f = "hnsw_m" -> 4 <= a[f].v /\ a[f].v <= 128
    [] f = "hnsw_ef_construction" ->
         /\ 1 <= a[f].v /\ a[f].v <= 2000
         /\ Given(a, "hnsw_m") => a[f].v >= a["hnsw_m"].v
    [] f = "checkpoint_frequency" -> a[f].v = 0 \/ a[f].v >= 100
    [] f = "timeout_connect" -> a[f].v >= 1
    [] f = "timeout_read" -> a[f].v >= 5
    [] OTHER -> a[f].v >= 0

AllMet == \A f \in Fields : Given(args, f) => Constraint(args, f)

\* C25: validate_args exits with status 1 exactly when a constraint on a given
\* attribute is violated, and then it has printed at least one error; otherwise it
\* returns, printing nothing; the entry point begins its work only after
\* validate_args returned.
C25_ExitIffViolated ==
  /\ apc = "exit" => ~AllMet /\ exit_code = 1 /\ stderr # {}
  /\ apc \in {"validated", "working"} => AllMet /\ exit_code = -1 /\ stderr = {}
  /\ apc = "parsed" => exit_code = -1 /\ stderr = {}
  /\ apc \in {"none", "parsed", "validated", "working", "exit"}

C25_Witness ==
  /\ apc = "exit"
  /\ entry = "build_embeddings"
  /\ args["hnsw_m"] = PyInt(128)
  /\ args["hnsw_ef_construction"] = PyInt(127)
  /\ Cardinality(stderr) = 1
\* ------------------------------------------------- compaction
\* C26: compaction keeps exactly the filled positions, in record order: kept is
\* strictly increasing, its elements are the flagged positions and no other, and
\* row r of X is the vector of position kept[r].
C26_CompactionKeepsOrder ==
  pc = "done" =>
    /\ \A a, b \in 1 .. Len(kept) : a < b => kept[a] < kept[b]
    /\ {kept[r] : r \in 1 .. Len(kept)} = {i \in Rec : good[i]}
    /\ Len(X) = Len(kept)
    /\ \A r \in 1 .. Len(kept) : X[r] = vecs[kept[r]]

C26_Witness ==
  /\ pc = "done"
  /\ Len(kept) >= 2
  /\ \E i \in Rec : ~good[i] /\ i < kept[Len(kept)]
  /\ \E a, b \in 1 .. Len(order) :
       a < b /\ order[a] > order[b] /\ good[order[a]] /\ good[order[b]]
\* ------------------------------------------------- build_index: null slots
\* C27: in build_index a batch slot whose image is None is skipped and the batch
\* goes on: the position is never flagged, no load that returns None ends the
\* run, and every slot of the batch that holds an image gets the vector of its
\* own image at its own record index.
C27_NullSlotSkipped ==
  /\ (\A i \in Rec : cache[i] # "raising") => pc # "crashed"
  /\ \A i \in Rec : good[i] => cache[i] = "image" /\ vecs[i] = OwnVector(i)
  /\ \A i \in Rec : ~good[i] => vecs[i] = Zero
  /\ \A k \in 1 .. Len(calls) : \A j \in 1 .. Len(calls[k].idx) :
       good[calls[k].idx[j]] <=> cache[calls[k].idx[j]] = "image"
  /\ pc = "seq_done" => \A i \in Rec : good[i] <=> (paths[i] # None /\ cache[i] = "image")

C27_Witness ==
  /\ pc = "seq_done"
  /\ \E k \in 1 .. Len(calls) :
       /\ Len(calls[k].idx) = 2
       /\ cache[calls[k].idx[1]] \in {"undecodable", "invalid"}
       /\ good[calls[k].idx[2]]
\* ------------------------------------------------- self-query
\* C28 (as claimed): a query of the freshly built index with the embedding of an
\* image whose record is in the index returns that record's identifier as the
\* top-1 result, with a similarity of at least 0.95.
C28_SelfQueryTop1 ==
  top1 # NoHit =>
    /\ kept[top1.id + 1] = top1.rec
    /\ top1.score >= 95
\* ------------------------------------------------- download_image without a session
\* C29 (as claimed): when download_image has returned or its process was killed,
\* a record's cache file is absent, empty, as it was before, or the complete
\* payload, and a later run never takes a partial file for a cache hit.
C29_LegacyWriteAtomic ==
  /\ \A i \in DRec :
       (killed \/ dpc[i] = "lg_returned") =>
         \/ FileState(url[i]) = snap[url[i]]
         \/ FileState(url[i]) = Complete
         \/ Data(url[i]) = << >>
  /\ \A i \in DRec : how[i] = "cached" => Data(url[i]) = Payload
\* ------------------------------------------------- --no-validate-cache
\* C30 (as claimed): with validate_cache = False, once the cache has been
\* classified no record is excluded as a validation failure, and every record
\* whose cache file is there and not empty has its path passed on to decoding.
C30_NoValidateSkipsValidation ==
  (~validate_cache /\ pc \notin {"none", "validate"}) =>
    /\ validation_failed = 0
    /\ validation_failures_list = << >>
    /\ \A i \in Rec : cache[i] \notin {"missing", "empty"} => paths[i] # None
\* ------------------------------------------------- --limit
\* C31 (as claimed): once the work has begun with a limit L that validate_args
\* accepted, the records processed are the first L records of the catalog, in
\* catalog order, and so at most L of them.
C31_LimitBoundsRecords ==
  (apc = "working" /\ Given(args, "limit")) =>
    /\ Len(faces) <= args["limit"].v
    /\ faces = SubSeq(catalog, 1, Min(args["limit"].v, Len(catalog)))
\* ------------------------------------------------- backoff
\* C32 (as claimed): the delay before the k-th retry of a request is 2^(k-1)
\* seconds (1, 2, 4, 8, 16 for k = 1..5) and at most 60, unless the answer
\* carried a Retry-After, which is then the delay.
C32_BackoffDoubles ==
  fpc = "backoff" =>
    IF Answer(attempts).kind = "status" /\ retry_after > 0
      THEN slept = retry_after
      ELSE slept = 2 ^ (attempts - 1) /\ slept <= 60
\* ------------------------------------------------- the parallel cache check
\* C33 (as claimed): every record gets exactly one of the classes missing,
\* invalid, valid; once the results are collected, paths has one entry per record
\* in the records' order, paths[i] is not None exactly when record i was
\* classified valid, and it is then the cache path of record i itself, in
\* whatever order the workers finished.
C33_PathsAlignedWithRecords ==
  /\ \A i \in Rec : check_result[i] # NoResult =>
       /\ check_result[i].status \in {"missing", "invalid", "valid"}
       /\ check_result[i].status = validate_cache_worker(i)
  /\ pc \in {"refill", "aborted"} =>
       /\ DOMAIN paths = Rec
       /\ \A i \in Rec :
            /\ paths[i] # None <=> check_result[i].status = "valid"
            /\ paths[i] # None => paths[i] = cache_file(i)

\* Two records of different classes were checked and the later one finished first.
C33_Witness ==
  /\ pc = "refill"
  /\ \E a, b \in 1 .. Len(check_order) :
       /\ a < b
       /\ check_order[a] > check_order[b]
       /\ paths[check_order[a]] # None
       /\ paths[check_order[b]] = None
\* ------------------------------------------------- the batch
\* C34: batch_imgs and batch_idx always have the same length, at most
\* batch_size, batch_idx holds no index twice, every embed call made inside the
\* loop got exactly batch_size images and the final flush between 1 and
\* batch_size - 1.
C34_BatchShape ==
  /\ Len(batch_imgs) = Len(batch_idx)
  /\ Len(batch_idx) <= batch_size
  /\ \A a, b \in 1 .. Len(batch_idx) : batch_idx[a] = batch_idx[b] => a = b
  /\ \A k \in 1 .. Len(calls) :
       /\ calls[k].line = 224 => Len(calls[k].idx) = batch_size
       /\ calls[k].line = 239 =>
            Len(calls[k].idx) >= 1 /\ Len(calls[k].idx) <= batch_size - 1

\* A run with batch_size 2 that embedded a full batch inside the loop and one
\* image in the final flush.
C34_Witness ==
  /\ pc = "done"
  /\ batch_size = 2
  /\ \E j, k \in 1 .. Len(calls) :
       /\ calls[j].line = 224 /\ Len(calls[j].idx) = 2
       /\ calls[k].line = 239 /\ Len(calls[k].idx) = 1
\* ------------------------------------------------- the loop's exit
\* C35 (as claimed): the scheduler loop is left in every run, and when it has been
\* left the path iterator is exhausted, no decode task is pending, every non-null
\* path has been submitted and consumed, and the progress counter is len(paths).
C35_LoopExitsComplete ==
  pc \in {"flush", "compact", "done", "crashed"} =>
    /\ path_iter = NumRecords
    /\ pending = {}
    /\ \A i \in Rec : paths[i] # None => submitted[i] = 1 /\ consumed[i] = 1
    /\ pbar = NumRecords
\* ------------------------------------------------- window and memory
\* The decoded images of futures that are done and not yet consumed.
HeldResults == {f \in pending : task[f] = "done" /\ result[f][2] \notin {None, Raises}}

\* C36: at every state the decode tasks submitted and not yet consumed number at
\* most prefetch_limit = max(load_workers, min(valid_count, 2 * batch_size)), at
\* most load_workers of them are executing, and the decoded images in memory
\* (results done and not consumed, plus the current batch) number at most
\* prefetch_limit + batch_size.
C36_WindowAndMemoryBounded ==
  LET limit == Max(Max(1, Min(4, cpu_count)),
                   Min(Cardinality({i \in Rec : paths[i] # None}), 2 * batch_size))
  IN /\ Cardinality({f \in Rec : task[f] \in {"queued", "running", "done"}}) <= limit
     /\ Cardinality({f \in Rec : task[f] = "running"}) <= Max(1, Min(4, cpu_count))
     /\ Cardinality(HeldResults) + Len(batch_imgs) <= limit + batch_size

\* The window is full beyond the number of workers while one image waits in the
\* batch and decoded results wait to be consumed.
C36_Witness ==
  /\ Cardinality(pending) > load_workers
  /\ Len(batch_imgs) >= 1
  /\ Cardinality(HeldResults) >= 2
\* ------------------------------------------------- empty answers
\* C37 (as claimed): when download_all_images has finished, every record it
\* counted as successfully cached has a file at its cache path that is not empty,
\* also when the server answered with a successful status and an empty body.
C37_CountedMeansNonEmpty ==
  (run = 1 /\ opc = "summary") =>
    \A i \in DRec :
      (collected[i] = 1 /\ ~is_failed(outcome[i])) =>
        Exists(url[i]) /\ Len(Data(url[i])) > 0
\* ------------------------------------------------- the artifacts in out_dir
\* C38 (as claimed): at every moment, also after a crash in the persistence phase
\* and with an out_dir that holds the files of an earlier run, when the index, the
\* embeddings and the metadata file are all there they have the same number of
\* entries and entry i of each refers to the same record; and the manifest of a
\* run is written only after its other three files are complete.
C38_ArtifactsDescribeOneRun ==
  /\ (\A f \in {"mtg_embeddings.npy", "mtg_cards.faiss", "mtg_meta.jsonl"} : disk[f].there) =>
       /\ disk["mtg_embeddings.npy"].rows = disk["mtg_cards.faiss"].rows
       /\ disk["mtg_cards.faiss"].rows = disk["mtg_meta.jsonl"].rows
  /\ manifest # None =>
       \A f \in {"mtg_embeddings.npy", "mtg_cards.faiss", "mtg_meta.jsonl"} :
         disk[f] = File(kept)
\* ------------------------------------------------- the export
\* C39: export_for_browser writes no output file when the metadata and the
\* embeddings differ in length; otherwise, once it is done, meta.json lists the
\* records of the metadata file in their order, as many as the rows written to
\* the embeddings file, which are the input rows in their order, so that a record
\* that stood at its vector's position still does.
C39_ExportKeepsAlignment ==
  LET npy == disk["mtg_embeddings.npy"]
      jsonl == disk["mtg_meta.jsonl"]
      outputs == {"embeddings.f32bin", "embeddings.i8bin", "meta.json"}
  IN /\ (~npy.there \/ ~jsonl.there \/ Len(npy.rows) # Len(jsonl.rows)) =>
          \A f \in outputs : ~disk[f].there
     /\ export_pc = "done" =>
          /\ disk["meta.json"] = File(jsonl.rows)
          /\ disk[OUT_BIN] = File(npy.rows)
          /\ Len(disk["meta.json"].rows) = Len(disk[OUT_BIN].rows)
          /\ \A i \in 1 .. Len(npy.rows) :
               npy.rows[i] = jsonl.rows[i] => disk[OUT_BIN].rows[i] = disk["meta.json"].rows[i]

\* An export of two or more rows is done.
C39_Witness ==
  /\ export_pc = "done"
  /\ Len(disk["meta.json"].rows) >= 2
  /\ disk[OUT_BIN].there
====
